---- MODULE Spec2Model ----
(***************************************************************************)
(* The annotation editor (component ImageAnnotator): the React state of    *)
(* the component, its event handlers and the completion of the initial    *)
(* load, as a state machine.  Every handler runs to completion on the      *)
(* state of the latest render (React flushes discrete events before the    *)
(* next one is delivered).                                                 *)
(***************************************************************************)
EXTENDS Integers, Sequences, FiniteSets, TLC

VARIABLES
    annotations,         \* useState<Annotation[]>([])
    drawingMode,         \* "none" | "box" | "polygon"
    isDrawing,           \* a box drag is in progress
    currentBox,          \* the box being dragged, or Null
    currentPolygon,      \* vertices accumulated so far
    selectedAnnotation,  \* the selected annotation (a copy of it), or Null
    showLabelInput,      \* the label prompt is open
    labelText,           \* text of the label prompt, a sequence of characters
    undoRedoState,       \* [history, currentIndex]; currentIndex is 0-based, -1 when empty
    touchStartTime,      \* Date.now() at the last touch start
    touchMoved,          \* a touch-move was seen since the last touch start
    now,                 \* the wall clock read by Date.now()
    loadState,           \* the initial getAnnotations call: "pending" | "done" | "failed"
    saving,              \* useState(false): a save request is awaited
    saveCalls,           \* the save requests in flight, oldest first
    alerts,              \* the messages shown by alert(), oldest first
    downloadCalls,       \* the export requests in flight, oldest first
    downloads,           \* the names of the files handed to the browser, oldest first
    lastOp               \* history variable: the last handler run, the branch it took,
                         \* the cursor it started from, whether a redo was possible
                         \* the canvas point of the event, if it read one,
                         \* the drawing state a cancelling handler started from,
                         \* the response body, if the handler was the load, and
                         \* the key event, if the keyboard listener ignored it

vars == <<annotations, drawingMode, isDrawing, currentBox, currentPolygon,
          selectedAnnotation, showLabelInput, labelText, undoRedoState,
          touchStartTime, touchMoved, now, loadState, saving, saveCalls,
          alerts, downloadCalls, downloads, lastOp>>

\* the program state, without the history variable
prog == <<annotations, drawingMode, isDrawing, currentBox, currentPolygon,
          selectedAnnotation, showLabelInput, labelText, undoRedoState,
          touchStartTime, touchMoved, now, loadState, saving, saveCalls,
          alerts,
          downloadCalls, downloads>>

----------------------------------------------------------------------------
(* Values *)

\* JavaScript null; a record, so that it compares with annotation records
Null == [type |-> "null"]

\* if (newHistory.length > 50) newHistory.shift()
HistoryCap == 50

\* Math.abs(w) > 10 && Math.abs(h) > 10
MinDrag == 10

\* touchDuration < 300
TapLimit == 300

Abs(v) == IF v < 0 THEN -v ELSE v

Min(a, b) == IF a <= b THEN a ELSE b

\* typeof v === 'number'
IsNumber(v) == v \in Int

\* Date.now().toString()
NewId(t) == ToString(t)

\* String.prototype.trim on a sequence of characters
RECURSIVE TrimStart(_)
TrimStart(s) == IF s # <<>> /\ Head(s) = " " THEN TrimStart(Tail(s)) ELSE s

RECURSIVE TrimEnd(_)
TrimEnd(s) ==
    IF s # <<>> /\ s[Len(s)] = " " THEN TrimEnd(SubSeq(s, 1, Len(s) - 1)) ELSE s

Trim(s) == TrimEnd(TrimStart(s))

\* JSON.parse(JSON.stringify(v)) of one annotation: a copy that keeps exactly
\* the own fields of the object; every field the editor stores is a finite
\* number, a string or an array of those, which JSON carries unchanged
JsonCopyAnnotation(ann) == [f \in DOMAIN ann |-> ann[f]]

JsonCopy(anns) == [i \in 1..Len(anns) |-> JsonCopyAnnotation(anns[i])]

----------------------------------------------------------------------------
(* History log *)

\* canUndo / canRedo, 0-based cursor
canUndo == undoRedoState.currentIndex > 0

canRedo == undoRedoState.currentIndex < Len(undoRedoState.history) - 1

\* addToHistory without the slice: the redo-able entries survive the push
AddToHistoryKeepsFuture(prev, newAnnotations, t) ==
    LET newHistory == Append(prev.history,
                             [annotations |-> JsonCopy(newAnnotations),
                              timestamp |-> t])
        capped == IF Len(newHistory) > HistoryCap THEN Tail(newHistory)
                                                  ELSE newHistory
    IN  [history |-> capped, currentIndex |-> Len(capped) - 1]

\* addToHistory without the shift: the log grows past the cap
AddToHistoryNoEvict(prev, newAnnotations, t) ==
    LET newHistory == Append(SubSeq(prev.history, 1, prev.currentIndex + 1),
                             [annotations |-> JsonCopy(newAnnotations),
                              timestamp |-> t])
    IN  [history |-> newHistory, currentIndex |-> Len(newHistory) - 1]

\* addToHistory with the cursor computed before the shift
AddToHistoryStaleCursor(prev, newAnnotations, t) ==
    LET newHistory == Append(SubSeq(prev.history, 1, prev.currentIndex + 1),
                             [annotations |-> JsonCopy(newAnnotations),
                              timestamp |-> t])
        capped == IF Len(newHistory) > HistoryCap THEN Tail(newHistory)
                                                  ELSE newHistory
    IN  [history |-> capped, currentIndex |-> Len(newHistory) - 1]

\* the updater of addToHistory: prev => {history, currentIndex}
AddToHistory(prev, newAnnotations, t) ==
    LET newHistory == Append(SubSeq(prev.history, 1, prev.currentIndex + 1),
                             [annotations |-> JsonCopy(newAnnotations),
                              timestamp |-> t])
        capped == IF Len(newHistory) > HistoryCap THEN Tail(newHistory)
                                                  ELSE newHistory
    IN  [history |-> capped, currentIndex |-> Len(capped) - 1]

\* undo that moves the cursor and forgets setAnnotations
UndoResultKeepsLive(prev, live) ==
    IF prev.currentIndex > 0
    THEN [state |-> [prev EXCEPT !.currentIndex = prev.currentIndex - 1],
          annotations |-> live]
    ELSE [state |-> prev, annotations |-> live]

\* undo that empties the live set when there is nothing to undo
UndoResultClears(prev, live) ==
    IF prev.currentIndex > 0
    THEN LET newIndex == prev.currentIndex - 1
         IN  [state |-> [prev EXCEPT !.currentIndex = newIndex],
              annotations |-> prev.history[newIndex + 1].annotations]
    ELSE [state |-> prev, annotations |-> <<>>]

\* undo that drops the entries it steps back over
UndoResultPops(prev, live) ==
    IF prev.currentIndex > 0
    THEN LET newIndex == prev.currentIndex - 1
         IN  [state |-> [history |-> SubSeq(prev.history, 1, newIndex + 1),
                         currentIndex |-> newIndex],
              annotations |-> prev.history[newIndex + 1].annotations]
    ELSE [state |-> prev, annotations |-> live]

\* undo that steps back by two entries where it can
UndoResultSkips(prev, live) ==
    IF prev.currentIndex > 0
    THEN LET newIndex == IF prev.currentIndex > 1 THEN prev.currentIndex - 2 ELSE 0
         IN  [state |-> [prev EXCEPT !.currentIndex = newIndex],
              annotations |-> prev.history[newIndex + 1].annotations]
    ELSE [state |-> prev, annotations |-> live]

\* the updater of undo, with the setAnnotations call it makes:
\* the pair [state, annotations] after undo() on (prev, live)
UndoResult(prev, live) ==
    IF prev.currentIndex > 0
    THEN LET newIndex == prev.currentIndex - 1
         IN  [state |-> [prev EXCEPT !.currentIndex = newIndex],
              annotations |-> prev.history[newIndex + 1].annotations]
    ELSE [state |-> prev, annotations |-> live]

\* redo that moves the cursor and forgets setAnnotations
RedoResultKeepsLive(prev, live) ==
    IF prev.currentIndex < Len(prev.history) - 1
    THEN [state |-> [prev EXCEPT !.currentIndex = prev.currentIndex + 1],
          annotations |-> live]
    ELSE [state |-> prev, annotations |-> live]

\* the updater of redo, with the setAnnotations call it makes
RedoResult(prev, live) ==
    IF prev.currentIndex < Len(prev.history) - 1
    THEN LET newIndex == prev.currentIndex + 1
         IN  [state |-> [prev EXCEPT !.currentIndex = newIndex],
              annotations |-> prev.history[newIndex + 1].annotations]
    ELSE [state |-> prev, annotations |-> live]

\* the record kept in lastOp by a handler that starts in the current state
Op(name, branch) ==
    [op |-> name, branch |-> branch,
     idx |-> undoRedoState.currentIndex,
     future |-> canRedo,
     at |-> <<>>,
     drawing |-> <<>>,
     response |-> <<>>,
     event |-> <<>>]

\* the same for a handler that read the canvas point p of its event
OpAt(name, branch, p) == [Op(name, branch) EXCEPT !.at = p]

\* the same for the completion of the load with the response body `loaded`
OpLoad(name, branch, loaded) == [Op(name, branch) EXCEPT !.response = loaded]

\* the same for the keyboard listener when it does nothing with the event
OpKey(name, key, mod, shift) ==
    [Op(name, key) EXCEPT !.event = <<key, mod, shift>>]

\* the same for a handler that cancels: the mode, the drag flag, the box, the
\* number of vertices and whether there was a selection when it started
OpFrom(name, branch) ==
    [Op(name, branch) EXCEPT
        !.drawing = <<drawingMode, isDrawing, currentBox # Null,
                      Len(currentPolygon), selectedAnnotation # Null>>]

\* updateAnnotations without the call of addToHistory
updateAnnotationsNoPush(newAnnotations) ==
    /\ annotations' = newAnnotations
    /\ UNCHANGED undoRedoState

\* updateAnnotations: setAnnotations(newAnnotations); addToHistory(newAnnotations)
updateAnnotations(newAnnotations) ==
    /\ annotations' = newAnnotations
    /\ undoRedoState' = AddToHistory(undoRedoState, newAnnotations, now)

undo ==
    LET r == UndoResult(undoRedoState, annotations)
    IN  /\ undoRedoState' = r.state
        /\ annotations' = r.annotations
        /\ lastOp' = Op("undo", IF canUndo THEN "moved" ELSE "noop")
        /\ UNCHANGED <<drawingMode, isDrawing, currentBox, currentPolygon,
                       selectedAnnotation, showLabelInput, labelText,
                       touchStartTime, touchMoved, now, loadState,
                       saving, saveCalls, alerts,
                       downloadCalls, downloads>>

redo ==
    LET r == RedoResult(undoRedoState, annotations)
    IN  /\ undoRedoState' = r.state
        /\ annotations' = r.annotations
        /\ lastOp' = Op("redo", IF canRedo THEN "moved" ELSE "noop")
        /\ UNCHANGED <<drawingMode, isDrawing, currentBox, currentPolygon,
                       selectedAnnotation, showLabelInput, labelText,
                       touchStartTime, touchMoved, now, loadState,
                       saving, saveCalls, alerts,
                       downloadCalls, downloads>>

----------------------------------------------------------------------------
(* Initial load *)

\* a value of the parsed response body is a record of its kind t ("number",
\* "string", "array", "object" or "null") and, in a field named after the
\* kind, its content
JNum(n) == [t |-> "number", number |-> n]

JStr(str) == [t |-> "string", string |-> str]

JArr(elems) == [t |-> "array", array |-> elems]

JObj(fields) == [t |-> "object", object |-> fields]

JNull == [t |-> "null"]

\* the content of a value that is not null
Content(j) ==
    CASE j.t = "number" -> j.number
      [] j.t = "string" -> j.string
      [] j.t = "array" -> j.array
      [] j.t = "object" -> j.object

\* a vertex [x, y] of a polygon, as the array of two numbers it is
Vertex(p) == JArr(<<JNum(p[1]), JNum(p[2])>>)

\* the vertex list of a polygon: the array content of its field `points`
Vertices(points) == [j \in 1..Len(points) |-> Vertex(points[j])]

\* const [x, y] = point, for a vertex that is an array of numbers
Pair(point) == <<point.array[1].number, point.array[2].number>>

\* the entry the server sends for a stored annotation: x, y, w, h are
\* numbers, points is an array, every other field is a string
Entry(ann) ==
    JObj([f \in DOMAIN ann |->
            IF f \in {"x", "y", "w", "h"} THEN JNum(ann[f])
            ELSE IF f = "points" THEN JArr(ann[f])
            ELSE JStr(ann[f])])

\* the response body whose entries are the stored annotations anns
Response(anns) == [i \in 1..Len(anns) |-> Entry(anns[i])]

\* the object of an entry as the editor holds it: the same fields with their
\* contents
Untag(entry) == [f \in DOMAIN entry.object |-> Content(entry.object[f])]

\* !!value
Truthy(j) ==
    CASE j.t = "null" -> FALSE
      [] j.t = "number" -> j.number # 0
      [] j.t = "string" -> j.string # ""
      [] OTHER -> TRUE

\* entry[f] is not undefined
HasField(entry, f) == entry.t = "object" /\ f \in DOMAIN entry.object

\* an annotation of the live set is a record: the load filter lets no value
\* through that is not an object, which would be the record [json |-> typeof]
IsObject(ann) == "json" \notin DOMAIN ann

\* the filter without the test of x, y, w and h
IsValidLoadedAnyBox(ann) ==
    /\ ann.t \in {"object", "array"}
    /\ HasField(ann, "type") /\ Truthy(ann.object.type)
    /\ ann.object.type = JStr("polygon") =>
          (HasField(ann, "points") /\ ann.object.points.t = "array")

\* the filter of loadAnnotations; typeof is 'object' for objects and arrays,
\* and null is dropped by `!ann`
IsValidLoaded(ann) ==
    /\ ann.t \in {"object", "array"}
    /\ HasField(ann, "type") /\ Truthy(ann.object.type)
    /\ ann.object.type = JStr("polygon") =>
          (HasField(ann, "points") /\ ann.object.points.t = "array")
    /\ ann.object.type = JStr("box") =>
          \A f \in {"x", "y", "w", "h"} :
              HasField(ann, f) /\ ann.object[f].t = "number"

validAnnotations(loaded) ==
    LET kept == SelectSeq(loaded, IsValidLoaded)
    IN  [i \in 1..Len(kept) |-> Untag(kept[i])]

\* getAnnotations resolves with `loaded`
loadResolved(loaded) ==
    /\ loadState = "pending"
    /\ loadState' = "done"
    /\ updateAnnotations(validAnnotations(loaded))
    /\ lastOp' = OpLoad("loadAnnotations", "resolved", loaded)
    /\ UNCHANGED <<drawingMode, isDrawing, currentBox, currentPolygon,
                   selectedAnnotation, showLabelInput, labelText,
                   touchStartTime, touchMoved, now, saving, saveCalls, alerts,
                   downloadCalls, downloads>>

\* getAnnotations rejects: the error is logged and nothing else happens
loadRejected ==
    /\ loadState = "pending"
    /\ loadState' = "failed"
    /\ lastOp' = Op("loadAnnotations", "rejected")
    /\ UNCHANGED <<annotations, drawingMode, isDrawing, currentBox,
                   currentPolygon, selectedAnnotation, showLabelInput,
                   labelText, undoRedoState, touchStartTime, touchMoved, now,
                   saving, saveCalls, alerts,
                   downloadCalls, downloads>>

----------------------------------------------------------------------------
(* Hit-testing *)

\* the containment test without the boundary
InsideBoxStrict(box, x, y) ==
    /\ x > box.x /\ x < box.x + box.w
    /\ y > box.y /\ y < box.y + box.h

\* x >= box.x && x <= box.x + box.w && y >= box.y && y <= box.y + box.h
InsideBox(box, x, y) ==
    /\ x >= box.x /\ x <= box.x + box.w
    /\ y >= box.y /\ y <= box.y + box.h

\* one step of the ray-casting loop for the edge from pk to pi:
\* ((yi > y) !== (yk > y)) && (x < (xk - xi) * (y - yi) / (yk - yi) + xi).
\* The division is exact over the rationals: the comparison is multiplied
\* through by yk - yi, which is not 0 when the first conjunct holds.
CrossesEdge(pi, pk, x, y) ==
    LET xi == pi[1]  yi == pi[2]
        xk == pk[1]  yk == pk[2]
        d  == yk - yi
    IN  /\ (yi > y) # (yk > y)
        /\ IF d > 0 THEN (x - xi) * d < (xk - xi) * (y - yi)
                    ELSE (x - xi) * d > (xk - xi) * (y - yi)

\* the loop without the edge from the last vertex to the first
InsidePolygonOpen(points, x, y) ==
    Cardinality({j \in 2..Len(points) :
                    CrossesEdge(Pair(points[j]), Pair(points[j - 1]), x, y)}) % 2 = 1

\* the loop `for (j = 0, k = length - 1; j < length; k = j++)`: inside is
\* toggled once per crossed edge
InsidePolygon(points, x, y) ==
    LET n == Len(points)
        k(j) == IF j = 1 THEN n ELSE j - 1
    IN  Cardinality({j \in 1..n :
                        CrossesEdge(Pair(points[j]), Pair(points[k(j)]), x, y)}) % 2 = 1

\* polygon.points.every(point => Array.isArray(point) && point.length >= 2 &&
\*                               both coordinates are numbers)
PointsValid(points) ==
    \A j \in 1..Len(points) :
        /\ points[j].t = "array"
        /\ Len(points[j].array) >= 2
        /\ points[j].array[1].t = "number" /\ points[j].array[2].t = "number"

\* the body of the loop of findAnnotationAt for one annotation
Hits(ann, x, y) ==
    /\ IsObject(ann)
    /\ "type" \in DOMAIN ann
    /\ \/ /\ ann.type = "box"
          /\ {"x", "y", "w", "h"} \subseteq DOMAIN ann
          /\ IsNumber(ann.x) /\ IsNumber(ann.y)
          /\ IsNumber(ann.w) /\ IsNumber(ann.h)
          /\ InsideBox(ann, x, y)
       \/ /\ ann.type = "polygon"
          /\ "points" \in DOMAIN ann
          /\ Len(ann.points) # 0
          /\ PointsValid(ann.points)
          /\ InsidePolygon(ann.points, x, y)

\* the loop run from the first annotation to the last
FindFirst(anns, i, x, y) ==
    LET hit == {k \in 1..i : Hits(anns[k], x, y)}
    IN  IF hit = {} THEN Null
        ELSE anns[CHOOSE k \in hit : \A l \in hit : k <= l]

\* the loop when a polygon whose vertex data is not valid ends the search
RECURSIVE FindFromStops(_, _, _, _)
FindFromStops(anns, i, x, y) ==
    IF i < 1 THEN Null
    ELSE IF Hits(anns[i], x, y) THEN anns[i]
    ELSE IF /\ "type" \in DOMAIN anns[i] /\ anns[i].type = "polygon"
            /\ "points" \in DOMAIN anns[i]
            /\ ~(Len(anns[i].points) # 0 /\ PointsValid(anns[i].points))
         THEN Null
    ELSE FindFromStops(anns, i - 1, x, y)

\* for (let i = annotations.length - 1; i >= 0; i--)
RECURSIVE FindFrom(_, _, _, _)
FindFrom(anns, i, x, y) ==
    IF i < 1 THEN Null
    ELSE IF Hits(anns[i], x, y) THEN anns[i]
    ELSE FindFrom(anns, i - 1, x, y)

findAnnotationAt(x, y) == FindFrom(annotations, Len(annotations), x, y)

----------------------------------------------------------------------------
(* Drawing state machine *)

\* the toolbar buttons Box and Polygon
setDrawingMode(mode) ==
    /\ drawingMode' = mode
    /\ lastOp' = Op("setDrawingMode", mode)
    /\ UNCHANGED <<annotations, isDrawing, currentBox, currentPolygon,
                   selectedAnnotation, showLabelInput, labelText,
                   undoRedoState, touchStartTime, touchMoved, now, loadState,
                   saving, saveCalls, alerts,
                   downloadCalls, downloads>>

\* setCurrentBox({ type: 'box', x, y, w: 0, h: 0 })
AnchorBox(p) == [type |-> "box", x |-> p[1], y |-> p[2], w |-> 0, h |-> 0]

\* setCurrentBox({ ...currentBox, w: x - currentBox.x, h: y - currentBox.y })
DraggedBox(box, p) == [box EXCEPT !.w = p[1] - box.x, !.h = p[2] - box.y]

\* the threshold with >= in place of >
BigEnoughInclusive(box) == Abs(box.w) >= MinDrag /\ Abs(box.h) >= MinDrag

\* Math.abs(currentBox.w) > 10 && Math.abs(currentBox.h) > 10
BigEnough(box) == Abs(box.w) > MinDrag /\ Abs(box.h) > MinDrag

\* the commit without Math.min: the anchor is kept as the origin
NewBoxUnshifted(box, t) ==
    [type |-> "box", x |-> box.x, y |-> box.y,
     w |-> Abs(box.w), h |-> Abs(box.h), id |-> NewId(t), label |-> <<>>]

\* the commit without Math.abs: the signed extent is kept
NewBoxSigned(box, t) ==
    [type |-> "box",
     x |-> Min(box.x, box.x + box.w), y |-> Min(box.y, box.y + box.h),
     w |-> box.w, h |-> box.h, id |-> NewId(t), label |-> <<>>]

\* the BoxAnnotation built on commit
NewBox(box, t) ==
    [type |-> "box",
     x |-> Min(box.x, box.x + box.w),
     y |-> Min(box.y, box.y + box.h),
     w |-> Abs(box.w),
     h |-> Abs(box.h),
     id |-> NewId(t),
     label |-> <<>>]

\* the PolygonAnnotation built by finishPolygon
NewPolygon(points, t) ==
    [type |-> "polygon", points |-> Vertices(points), id |-> NewId(t),
     label |-> <<>>]

BoxDragInProgress == drawingMode = "box" /\ isDrawing /\ currentBox # Null

\* a press that anchors a box also when no tool is chosen
handleMouseDownAnchors(p) ==
    /\ \/ /\ drawingMode \in {"none", "box"}
          /\ currentBox' = AnchorBox(p)
          /\ isDrawing' = TRUE
          /\ selectedAnnotation' =
                IF drawingMode = "none" THEN findAnnotationAt(p[1], p[2])
                                        ELSE selectedAnnotation
          /\ lastOp' = IF drawingMode = "none"
                       THEN OpAt("handleMouseDown", "select", p)
                       ELSE Op("handleMouseDown", "anchor")
       \/ /\ drawingMode = "polygon"
          /\ lastOp' = Op("handleMouseDown", "ignored")
          /\ UNCHANGED <<currentBox, isDrawing, selectedAnnotation>>
    /\ UNCHANGED <<annotations, drawingMode, currentPolygon, showLabelInput,
                   labelText, undoRedoState, touchStartTime, touchMoved, now,
                   loadState,
                   saving, saveCalls, alerts,
                   downloadCalls, downloads>>

handleMouseDown(p) ==
    /\ \/ /\ drawingMode = "none"
          /\ selectedAnnotation' = findAnnotationAt(p[1], p[2])
          /\ lastOp' = OpAt("handleMouseDown", "select", p)
          /\ UNCHANGED <<currentBox, isDrawing>>
       \/ /\ drawingMode = "box"
          /\ currentBox' = AnchorBox(p)
          /\ isDrawing' = TRUE
          /\ lastOp' = Op("handleMouseDown", "anchor")
          /\ UNCHANGED selectedAnnotation
       \/ /\ drawingMode = "polygon"
          /\ lastOp' = Op("handleMouseDown", "ignored")
          /\ UNCHANGED <<currentBox, isDrawing, selectedAnnotation>>
    /\ UNCHANGED <<annotations, drawingMode, currentPolygon, showLabelInput,
                   labelText, undoRedoState, touchStartTime, touchMoved, now,
                   loadState,
                   saving, saveCalls, alerts,
                   downloadCalls, downloads>>

handleTouchStart(p) ==
    /\ touchStartTime' = now
    /\ touchMoved' = FALSE
    /\ \/ /\ drawingMode = "none"
          /\ selectedAnnotation' = findAnnotationAt(p[1], p[2])
          /\ lastOp' = OpAt("handleTouchStart", "select", p)
          /\ UNCHANGED <<currentBox, isDrawing>>
       \/ /\ drawingMode = "box"
          /\ currentBox' = AnchorBox(p)
          /\ isDrawing' = TRUE
          /\ lastOp' = Op("handleTouchStart", "anchor")
          /\ UNCHANGED selectedAnnotation
       \/ /\ drawingMode = "polygon"
          /\ lastOp' = Op("handleTouchStart", "polygon")
          /\ UNCHANGED <<currentBox, isDrawing, selectedAnnotation>>
    /\ UNCHANGED <<annotations, drawingMode, currentPolygon, showLabelInput,
                   labelText, undoRedoState, now, loadState,
                   saving, saveCalls, alerts,
                   downloadCalls, downloads>>

handleMouseMove(p) ==
    /\ IF BoxDragInProgress
       THEN /\ currentBox' = DraggedBox(currentBox, p)
            /\ lastOp' = Op("handleMouseMove", "drag")
       ELSE /\ UNCHANGED currentBox
            /\ lastOp' = Op("handleMouseMove", "ignored")
    /\ UNCHANGED <<annotations, drawingMode, isDrawing, currentPolygon,
                   selectedAnnotation, showLabelInput, labelText,
                   undoRedoState, touchStartTime, touchMoved, now, loadState,
                   saving, saveCalls, alerts,
                   downloadCalls, downloads>>

handleTouchMove(p) ==
    /\ touchMoved' = TRUE
    /\ IF BoxDragInProgress
       THEN /\ currentBox' = DraggedBox(currentBox, p)
            /\ lastOp' = Op("handleTouchMove", "drag")
       ELSE /\ UNCHANGED currentBox
            /\ lastOp' = Op("handleTouchMove", "moved")
    /\ UNCHANGED <<annotations, drawingMode, isDrawing, currentPolygon,
                   selectedAnnotation, showLabelInput, labelText,
                   undoRedoState, touchStartTime, now, loadState,
                   saving, saveCalls, alerts,
                   downloadCalls, downloads>>

\* the body shared, word for word, by handleMouseUp and handleTouchEnd once a
\* box drag is in progress
commitBox(name) ==
    /\ IF BigEnough(currentBox)
       THEN LET newAnnotation == NewBox(currentBox, now)
            IN  /\ updateAnnotations(Append(annotations, newAnnotation))
                /\ selectedAnnotation' = newAnnotation
                /\ showLabelInput' = TRUE
                /\ labelText' = <<>>
                /\ lastOp' = Op(name, "commit")
       ELSE /\ lastOp' = Op(name, "discard")
            /\ UNCHANGED <<annotations, undoRedoState, selectedAnnotation,
                           showLabelInput, labelText>>
    /\ currentBox' = Null
    /\ isDrawing' = FALSE
    /\ drawingMode' = "none"

handleMouseUp ==
    /\ IF BoxDragInProgress
       THEN commitBox("handleMouseUp")
       ELSE /\ lastOp' = Op("handleMouseUp", "ignored")
            /\ UNCHANGED <<annotations, undoRedoState, selectedAnnotation,
                           showLabelInput, labelText, currentBox, isDrawing,
                           drawingMode>>
    /\ UNCHANGED <<currentPolygon, touchStartTime, touchMoved, now, loadState,
                   saving, saveCalls, alerts,
                   downloadCalls, downloads>>

\* the vertex put in front of the list
AddVertexFirst(points, p) == <<p>> \o points

\* [...currentPolygon, [x, y]]
AddVertex(points, p) == Append(points, p)

\* const wasTap = !touchMoved && touchDuration < 300
wasTap == ~touchMoved /\ now - touchStartTime < TapLimit

\* the function handleTouchEnd, run for the event `name` it is wired to
handleTouchEndFor(name, p) ==
    IF drawingMode = "polygon" /\ wasTap
    THEN /\ currentPolygon' = AddVertex(currentPolygon, p)
         /\ lastOp' = OpAt(name, "tap", p)
         /\ UNCHANGED <<annotations, drawingMode, isDrawing, currentBox,
                        selectedAnnotation, showLabelInput, labelText,
                        undoRedoState, touchStartTime, touchMoved, now, loadState,
                        saving, saveCalls, alerts,
                        downloadCalls, downloads>>
    ELSE /\ IF BoxDragInProgress
            THEN commitBox(name)
            ELSE /\ lastOp' = Op(name, "ignored")
                 /\ UNCHANGED <<annotations, undoRedoState, selectedAnnotation,
                                showLabelInput, labelText, currentBox, isDrawing,
                                drawingMode>>
         /\ UNCHANGED <<currentPolygon, touchStartTime, touchMoved, now, loadState,
                        saving, saveCalls, alerts,
                        downloadCalls, downloads>>

\* onTouchEnd={handleTouchEnd}
handleTouchEnd(p) == handleTouchEndFor("handleTouchEnd", p)

\* a touch-cancel that drops the touch: the drag is discarded, no vertex is
\* added
handleTouchCancelDiscards(p) ==
    /\ IF BoxDragInProgress
       THEN /\ currentBox' = Null
            /\ isDrawing' = FALSE
            /\ drawingMode' = "none"
            /\ lastOp' = Op("handleTouchCancel", "discard")
       ELSE /\ lastOp' = Op("handleTouchCancel", "ignored")
            /\ UNCHANGED <<currentBox, isDrawing, drawingMode>>
    /\ UNCHANGED <<annotations, undoRedoState, selectedAnnotation,
                   showLabelInput, labelText, currentPolygon, touchStartTime,
                   touchMoved, now, loadState, saving, saveCalls, alerts,
                   downloadCalls, downloads>>

\* onTouchCancel={handleTouchEnd}
handleTouchCancel(p) == handleTouchEndFor("handleTouchCancel", p)

handleCanvasClick(p) ==
    /\ IF drawingMode = "polygon"
       THEN /\ currentPolygon' = AddVertex(currentPolygon, p)
            /\ lastOp' = OpAt("handleCanvasClick", "vertex", p)
       ELSE /\ UNCHANGED currentPolygon
            /\ lastOp' = Op("handleCanvasClick", "ignored")
    /\ UNCHANGED <<annotations, drawingMode, isDrawing, currentBox,
                   selectedAnnotation, showLabelInput, labelText,
                   undoRedoState, touchStartTime, touchMoved, now, loadState,
                   saving, saveCalls, alerts,
                   downloadCalls, downloads>>

\* the guard with 2 in place of 3
CanFinishTwo(points) == Len(points) >= 2

\* if (currentPolygon.length >= 3)
CanFinish(points) == Len(points) >= 3

finishPolygon ==
    /\ IF CanFinish(currentPolygon)
       THEN LET newAnnotation == NewPolygon(currentPolygon, now)
            IN  /\ updateAnnotations(Append(annotations, newAnnotation))
                /\ selectedAnnotation' = newAnnotation
                /\ showLabelInput' = TRUE
                /\ labelText' = <<>>
                /\ lastOp' = Op("finishPolygon", "commit")
       ELSE /\ lastOp' = Op("finishPolygon",
                            IF currentPolygon = <<>> THEN "empty" ELSE "short")
            /\ UNCHANGED <<annotations, undoRedoState, selectedAnnotation,
                           showLabelInput, labelText>>
    /\ currentPolygon' = <<>>
    /\ drawingMode' = "none"
    /\ UNCHANGED <<isDrawing, currentBox, touchStartTime, touchMoved, now,
                   loadState,
                   saving, saveCalls, alerts,
                   downloadCalls, downloads>>

\* the Finish button is rendered only then
FinishVisible == drawingMode = "polygon" /\ Len(currentPolygon) >= 3

\* the Cancel button is rendered only then
CancelVisible == drawingMode # "none" \/ Len(currentPolygon) > 0

\* cancel that leaves the drag flag as it is
cancelDrawingKeepsDrag ==
    /\ currentBox' = Null
    /\ currentPolygon' = <<>>
    /\ drawingMode' = "none"
    /\ lastOp' = OpFrom("cancelDrawing", "")
    /\ UNCHANGED <<annotations, isDrawing, selectedAnnotation, showLabelInput,
                   labelText, undoRedoState, touchStartTime, touchMoved, now,
                   loadState,
                   saving, saveCalls, alerts,
                   downloadCalls, downloads>>

cancelDrawing ==
    /\ currentBox' = Null
    /\ currentPolygon' = <<>>
    /\ drawingMode' = "none"
    /\ isDrawing' = FALSE
    /\ lastOp' = OpFrom("cancelDrawing", "")
    /\ UNCHANGED <<annotations, selectedAnnotation, showLabelInput, labelText,
                   undoRedoState, touchStartTime, touchMoved, now, loadState,
                   saving, saveCalls, alerts,
                   downloadCalls, downloads>>

----------------------------------------------------------------------------
(* Editing the committed set *)

\* JavaScript undefined, as the value of a missing id
Undefined == "<undefined>"

\* ann.id
IdOf(ann) == IF "id" \in DOMAIN ann THEN ann.id ELSE Undefined

\* annotations.filter(ann => ann.id !== selectedAnnotation.id)
WithoutSelected(anns, sel) == SelectSeq(anns, LAMBDA a : IdOf(a) # IdOf(sel))

\* { ...ann, label: text }
WithLabel(ann, text) ==
    [f \in DOMAIN ann \cup {"label"} |-> IF f = "label" THEN text ELSE ann[f]]

\* annotations.map(ann => ann.id === selectedAnnotation.id ? {...ann, label} : ann)
Relabelled(anns, sel, text) ==
    [i \in 1..Len(anns) |->
        IF IdOf(anns[i]) = IdOf(sel) THEN WithLabel(anns[i], text) ELSE anns[i]]

deleteSelectedAnnotation ==
    /\ IF selectedAnnotation # Null
       THEN /\ updateAnnotations(WithoutSelected(annotations, selectedAnnotation))
            /\ selectedAnnotation' = Null
            /\ lastOp' = Op("deleteSelectedAnnotation", "deleted")
       ELSE /\ lastOp' = Op("deleteSelectedAnnotation", "noop")
            /\ UNCHANGED <<annotations, undoRedoState, selectedAnnotation>>
    /\ UNCHANGED <<drawingMode, isDrawing, currentBox, currentPolygon,
                   showLabelInput, labelText, touchStartTime, touchMoved, now,
                   loadState,
                   saving, saveCalls, alerts,
                   downloadCalls, downloads>>

\* clear-all that does not wait for the answer
clearAllUnasked(confirmed) ==
    /\ updateAnnotations(<<>>)
    /\ selectedAnnotation' = Null
    /\ lastOp' = Op("clearAllAnnotations", IF confirmed THEN "cleared" ELSE "declined")
    /\ UNCHANGED <<drawingMode, isDrawing, currentBox, currentPolygon,
                   showLabelInput, labelText, touchStartTime, touchMoved, now,
                   loadState, saving, saveCalls, alerts, downloadCalls,
                   downloads>>

\* `confirmed` is the answer to window.confirm
clearAllAnnotations(confirmed) ==
    /\ IF confirmed
       THEN /\ updateAnnotations(<<>>)
            /\ selectedAnnotation' = Null
            /\ lastOp' = Op("clearAllAnnotations", "cleared")
       ELSE /\ lastOp' = Op("clearAllAnnotations", "declined")
            /\ UNCHANGED <<annotations, undoRedoState, selectedAnnotation>>
    /\ UNCHANGED <<drawingMode, isDrawing, currentBox, currentPolygon,
                   showLabelInput, labelText, touchStartTime, touchMoved, now,
                   loadState,
                   saving, saveCalls, alerts,
                   downloadCalls, downloads>>

\* the Label button: setShowLabelInput(true); setLabelText(selected.label || '')
openLabelInput ==
    /\ selectedAnnotation # Null
    /\ showLabelInput' = TRUE
    /\ labelText' = IF "label" \in DOMAIN selectedAnnotation
                    THEN selectedAnnotation.label ELSE <<>>
    /\ lastOp' = Op("openLabelInput", "")
    /\ UNCHANGED <<annotations, drawingMode, isDrawing, currentBox,
                   currentPolygon, selectedAnnotation, undoRedoState,
                   touchStartTime, touchMoved, now, loadState,
                   saving, saveCalls, alerts,
                   downloadCalls, downloads>>

\* onChange of the prompt's text field
setLabelText(text) ==
    /\ showLabelInput
    /\ labelText' = text
    /\ lastOp' = Op("setLabelText", "")
    /\ UNCHANGED <<annotations, drawingMode, isDrawing, currentBox,
                   currentPolygon, selectedAnnotation, showLabelInput,
                   undoRedoState, touchStartTime, touchMoved, now, loadState,
                   saving, saveCalls, alerts,
                   downloadCalls, downloads>>

\* the Cancel button of the prompt: setShowLabelInput(false)
closeLabelInput ==
    /\ showLabelInput
    /\ showLabelInput' = FALSE
    /\ lastOp' = Op("closeLabelInput", "")
    /\ UNCHANGED <<annotations, drawingMode, isDrawing, currentBox,
                   currentPolygon, selectedAnnotation, labelText,
                   undoRedoState, touchStartTime, touchMoved, now, loadState,
                   saving, saveCalls, alerts,
                   downloadCalls, downloads>>

saveLabel ==
    /\ IF selectedAnnotation # Null /\ Trim(labelText) # <<>>
       THEN /\ updateAnnotations(Relabelled(annotations, selectedAnnotation,
                                            Trim(labelText)))
            /\ selectedAnnotation' = WithLabel(selectedAnnotation, Trim(labelText))
            /\ lastOp' = Op("saveLabel", "saved")
       ELSE /\ lastOp' = Op("saveLabel", "noop")
            /\ UNCHANGED <<annotations, undoRedoState, selectedAnnotation>>
    /\ showLabelInput' = FALSE
    /\ labelText' = <<>>
    /\ UNCHANGED <<drawingMode, isDrawing, currentBox, currentPolygon,
                   touchStartTime, touchMoved, now, loadState,
                   saving, saveCalls, alerts,
                   downloadCalls, downloads>>

----------------------------------------------------------------------------
(* Keyboard *)

\* the window keydown listener; `mod` is event.ctrlKey || event.metaKey.
\* The three tests of the listener are on one key, so at most one applies;
\* for a key that none of them accepts the branch recorded is the key.
handleKeyDown(key, mod, shift) ==
    IF mod /\ key = "z" /\ ~shift
    THEN undo
    ELSE IF mod /\ ((key = "z" /\ shift) \/ key = "y")
    THEN redo
    ELSE IF key = "Delete" /\ selectedAnnotation # Null
    THEN deleteSelectedAnnotation
    ELSE IF key = "Escape"
    THEN /\ currentBox' = Null
         /\ currentPolygon' = <<>>
         /\ drawingMode' = "none"
         /\ isDrawing' = FALSE
         /\ selectedAnnotation' = Null
         /\ lastOp' = OpFrom("handleKeyDown", "Escape")
         /\ UNCHANGED <<annotations, showLabelInput, labelText, undoRedoState,
                        touchStartTime, touchMoved, now, loadState,
                        saving, saveCalls, alerts,
                        downloadCalls, downloads>>
    ELSE /\ lastOp' = OpKey("handleKeyDown", key, mod, shift)
         /\ UNCHANGED prog

\* a key pressed in the text field of the label prompt: the onKeyDown of the
\* field runs first (Enter: saveLabel, Escape: setShowLabelInput(false)), then
\* the event reaches the window listener, which ignores Enter
labelInputKeyDown(key) ==
    /\ showLabelInput
    /\ IF key = "Enter"
       THEN saveLabel
       ELSE IF key = "Escape"
       THEN /\ showLabelInput' = FALSE
            /\ currentBox' = Null
            /\ currentPolygon' = <<>>
            /\ drawingMode' = "none"
            /\ isDrawing' = FALSE
            /\ selectedAnnotation' = Null
            /\ lastOp' = OpFrom("labelInputKeyDown", "cancel")
            /\ UNCHANGED <<annotations, labelText, undoRedoState,
                           touchStartTime, touchMoved, now, loadState,
                           saving, saveCalls, alerts,
                           downloadCalls, downloads>>
       ELSE handleKeyDown(key, FALSE, FALSE)

----------------------------------------------------------------------------
(* Save *)

\* image.id, the image the editor was opened on
ImageId == 1

\* a body that misses the newest annotation
RequestBodyWithoutLast(anns) == JsonCopy(SubSeq(anns, 1, Len(anns) - 1))

\* JSON.stringify(annotations), as the server parses it
RequestBody(anns) == JsonCopy(anns)

\* the Save button: setSaving(true), then apiService.saveAnnotations(image.id,
\* annotations) runs up to its fetch, which serializes the annotations of
\* the render the button was clicked in
saveAnnotations ==
    /\ saving' = TRUE
    /\ saveCalls' = Append(saveCalls,
                           [imageId |-> ImageId, body |-> RequestBody(annotations)])
    /\ lastOp' = Op("saveAnnotations", "sent")
    /\ UNCHANGED <<annotations, drawingMode, isDrawing, currentBox,
                   currentPolygon, selectedAnnotation, showLabelInput,
                   labelText, undoRedoState, touchStartTime, touchMoved, now,
                   loadState, alerts,
                   downloadCalls, downloads>>

\* a Save button that is never disabled
SaveAlwaysEnabled == TRUE

\* the Save button is disabled while saving
SaveEnabled == ~saving

\* the completion without the `finally` block: the flag stays set
saveSettledKeepsSaving(i, ok) ==
    /\ i \in 1..Len(saveCalls)
    /\ saveCalls' = SubSeq(saveCalls, 1, i - 1) \o
                    SubSeq(saveCalls, i + 1, Len(saveCalls))
    /\ alerts' = Append(alerts, IF ok THEN "Annotations saved successfully!"
                                      ELSE "Failed to save annotations")
    /\ lastOp' = Op("saveAnnotations", IF ok THEN "resolved" ELSE "rejected")
    /\ UNCHANGED <<annotations, drawingMode, isDrawing, currentBox,
                   currentPolygon, selectedAnnotation, showLabelInput,
                   labelText, undoRedoState, touchStartTime, touchMoved, now,
                   loadState, saving, downloadCalls, downloads>>

\* the i-th request in flight completes: alert(...), then setSaving(false)
saveSettled(i, ok) ==
    /\ i \in 1..Len(saveCalls)
    /\ saveCalls' = SubSeq(saveCalls, 1, i - 1) \o
                    SubSeq(saveCalls, i + 1, Len(saveCalls))
    /\ alerts' = Append(alerts, IF ok THEN "Annotations saved successfully!"
                                      ELSE "Failed to save annotations")
    /\ saving' = FALSE
    /\ lastOp' = Op("saveAnnotations", IF ok THEN "resolved" ELSE "rejected")
    /\ UNCHANGED <<annotations, drawingMode, isDrawing, currentBox,
                   currentPolygon, selectedAnnotation, showLabelInput,
                   labelText, undoRedoState, touchStartTime, touchMoved, now,
                   loadState, downloadCalls, downloads>>

----------------------------------------------------------------------------
(* Export *)

\* every format asks for the file of the JSON export
DownloadRequestPlain(format) ==
    [imageId |-> ImageId, format |-> "", via |-> "apiService"]

\* the request of an export: apiService.downloadAnnotations(image.id) fetches
\* /images/{id}/download-annotations; the other formats fetch the same path
\* with ?format=coco or ?format=yolo from the component itself
DownloadRequest(format) ==
    IF format \in {"coco", "yolo"}
    THEN [imageId |-> ImageId, format |-> format, via |-> "fetch"]
    ELSE [imageId |-> ImageId, format |-> "", via |-> "apiService"]

\* a.download of the link that is clicked for the blob of a response
FileName(request) ==
    IF request.format = "coco"
    THEN <<"coco_annotations_", request.imageId, ".json">>
    ELSE IF request.format = "yolo"
    THEN <<"yolo_annotations_", request.imageId, ".txt">>
    ELSE <<"annotations_", request.imageId, ".json">>

\* one of the three export buttons: the handler runs up to its fetch
downloadAnnotations(format) ==
    /\ downloadCalls' = Append(downloadCalls, DownloadRequest(format))
    /\ lastOp' = Op("downloadAnnotations", format)
    /\ UNCHANGED <<annotations, drawingMode, isDrawing, currentBox,
                   currentPolygon, selectedAnnotation, showLabelInput,
                   labelText, undoRedoState, touchStartTime, touchMoved, now,
                   loadState, saving, saveCalls, alerts, downloads>>

\* the i-th export request in flight completes: with an ok response the blob
\* is handed to the browser under its file name; when fetch rejects or the
\* response is not ok the error is caught and alert(...) is called
downloadSettled(i, ok) ==
    /\ i \in 1..Len(downloadCalls)
    /\ downloadCalls' = SubSeq(downloadCalls, 1, i - 1) \o
                        SubSeq(downloadCalls, i + 1, Len(downloadCalls))
    /\ IF ok
       THEN /\ downloads' = Append(downloads, FileName(downloadCalls[i]))
            /\ UNCHANGED alerts
       ELSE /\ alerts' = Append(alerts, "Failed to download annotations")
            /\ UNCHANGED downloads
    /\ lastOp' = Op("downloadAnnotations", IF ok THEN "resolved" ELSE "rejected")
    /\ UNCHANGED <<annotations, drawingMode, isDrawing, currentBox,
                   currentPolygon, selectedAnnotation, showLabelInput,
                   labelText, undoRedoState, touchStartTime, touchMoved, now,
                   loadState, saving, saveCalls>>

----------------------------------------------------------------------------
(* Clock *)

\* time passes: Date.now() moves forward to t
Tick(t) ==
    /\ t > now
    /\ now' = t
    /\ lastOp' = Op("Tick", "")
    /\ UNCHANGED <<annotations, drawingMode, isDrawing, currentBox,
                   currentPolygon, selectedAnnotation, showLabelInput,
                   labelText, undoRedoState, touchStartTime, touchMoved,
                   loadState,
                   saving, saveCalls, alerts,
                   downloadCalls, downloads>>

----------------------------------------------------------------------------
(* The editor in its environment *)

\* pointer positions, in canvas pixels
Points == {<<10, 10>>, <<60, 60>>, <<20, 60>>, <<60, 10>>}

\* positions of polygon clicks
ClickPoints == {<<0, 0>>, <<10, 0>>, <<10, 10>>}

\* instants the clock shows
Times == {1000, 1300}

\* what the server returns for the image
StoredBox ==
    [type |-> "box", x |-> 10, y |-> 10, w |-> 50, h |-> 50,
     id |-> "1", label |-> <<>>]

StoredNegativeBox ==
    [type |-> "box", x |-> 60, y |-> 60, w |-> -50, h |-> -50,
     id |-> "2", label |-> <<>>]

LoadResponses == {<<>>, <<StoredBox>>, <<StoredNegativeBox>>}

\* an edit is offered while the log holds fewer than MaxLog entries
MaxLog == 3

\* vertices of the polygon in progress
MaxVertices == 3

\* polygons committed in one session
MaxPolygons == 1

Init ==
    /\ annotations = <<>>
    /\ drawingMode = "none"
    /\ isDrawing = FALSE
    /\ currentBox = Null
    /\ currentPolygon = <<>>
    /\ selectedAnnotation = Null
    /\ showLabelInput = FALSE
    /\ labelText = <<>>
    /\ undoRedoState = [history |-> <<>>, currentIndex |-> -1]
    /\ touchStartTime = 0
    /\ touchMoved = FALSE
    /\ now \in {t \in Times : \A u \in Times : t <= u}
    /\ loadState = "pending"
    /\ saving = FALSE
    /\ saveCalls = <<>>
    /\ alerts = <<>>
    /\ downloadCalls = <<>>
    /\ downloads = <<>>
    /\ lastOp = [op |-> "init", branch |-> "", idx |-> -1, future |-> FALSE,
                 at |-> <<>>, drawing |-> <<>>, response |-> <<>>,
                 event |-> <<>>]

\* the label prompt is a full-screen overlay above the editor: while it is
\* open the canvas and the toolbar receive no pointer event
PromptClosed == ~showLabelInput

WithinLog == Len(undoRedoState.history) < MaxLog

(* Box drawing: the Box tool, mouse and touch drags over Points, cancel,   *)
(* closing the label prompt, and the load completing at any moment.        *)
NextBox ==
    \/ \E loaded \in LoadResponses : loadResolved(Response(loaded))
    \/ loadRejected
    \/ PromptClosed /\ setDrawingMode("box")
    \/ PromptClosed /\ CancelVisible /\ cancelDrawing
    \/ \E p \in Points : PromptClosed /\ WithinLog /\ handleMouseDown(p)
    \/ \E p \in Points : PromptClosed /\ handleMouseMove(p)
    \/ PromptClosed /\ handleMouseUp
    \/ \E p \in Points : PromptClosed /\ WithinLog /\ handleTouchStart(p)
    \/ \E p \in Points : PromptClosed /\ handleTouchMove(p)
    \/ \E p \in Points : PromptClosed /\ handleTouchEnd(p)
    \/ closeLabelInput

SpecBox == Init /\ [][NextBox]_vars

(* Polygon drawing while the load is still pending: the Polygon tool,     *)
(* clicks over ClickPoints while fewer than MaxPolygons polygons are        *)
(* committed, cancel, and finishPolygon called in any state with the       *)
(* prompt closed, also with fewer than 3 vertices, where the Finish button *)
(* is not rendered: its own guard decides.                                 *)
NextPoly ==
    \/ PromptClosed /\ setDrawingMode("polygon")
    \/ PromptClosed /\ CancelVisible /\ cancelDrawing
    \/ PromptClosed /\ Len(annotations) < MaxPolygons /\ finishPolygon
    \/ \E p \in ClickPoints :
          /\ PromptClosed
          /\ Len(annotations) < MaxPolygons
          /\ Len(currentPolygon) < MaxVertices
          /\ handleCanvasClick(p)
    \/ closeLabelInput

SpecPoly == Init /\ [][NextPoly]_vars

\* what the server returns for the image in the hit-testing scenarios: two
\* overlapping boxes and a triangle that overlaps the second box
BoxA ==
    [type |-> "box", x |-> 0, y |-> 0, w |-> 10, h |-> 10,
     id |-> "a", label |-> <<>>]

BoxB ==
    [type |-> "box", x |-> 5, y |-> 5, w |-> 10, h |-> 10,
     id |-> "b", label |-> <<>>]

Triangle ==
    [type |-> "polygon", points |-> Vertices(<<<<5, 5>>, <<25, 5>>, <<25, 25>>>>),
     id |-> "t", label |-> <<>>]

HitShapes == {BoxA, BoxB, Triangle}

\* annotations in one load response
MaxLoaded == 2

HitResponses == UNION {[1..n -> HitShapes] : n \in 0..MaxLoaded}

\* pointer positions of the hit-testing scenarios: inside, on the boundary of
\* and just outside the shapes
HitPoints ==
    {<<5, 5>>, <<15, 15>>, <<0, 0>>, <<10, 10>>, <<11, 5>>, <<16, 16>>,
     <<15, 10>>, <<20, 10>>}

(* Selecting in idle: the load completes with any response of              *)
(* HitResponses, and the canvas gets mouse and touch events over HitPoints *)
(* while no tool is chosen.                                                *)
NextHit ==
    \/ \E loaded \in HitResponses : loadResolved(Response(loaded))
    \/ \E p \in HitPoints : handleMouseDown(p)
    \/ handleMouseUp
    \/ \E p \in HitPoints : handleCanvasClick(p)
    \/ \E p \in HitPoints : handleTouchStart(p)
    \/ \E p \in HitPoints : handleTouchEnd(p)

SpecHit == Init /\ [][NextHit]_vars

\* pointer positions of the drawing scenarios: the corners of the one box
\* that can be dragged between them
DrawPoints == {<<0, 0>>, <<60, 60>>}

\* the polygon of the drawing scenarios, clicked corner after corner
DrawTriangle == <<<<0, 0>>, <<60, 0>>, <<60, 60>>>>

NextCorner ==
    IF Len(currentPolygon) < Len(DrawTriangle)
    THEN {DrawTriangle[Len(currentPolygon) + 1]}
    ELSE {}

\* annotations in the live set while a shape is still started or committed
MaxShapes == 2

CanDraw == Len(annotations) < MaxShapes

(* Both tools together: either tool chosen at any moment with the prompt   *)
(* closed, drags over DrawPoints, clicks and taps on the corners of        *)
(* DrawTriangle, finish by its button, cancel by its button and by Escape, *)
(* presses and taps in idle, and the load completing at any moment.  A     *)
(* polygon is finished as soon as it can be.                               *)
NextDraw ==
    \/ \E loaded \in {<<StoredBox>>} : loadResolved(Response(loaded))
    \/ \E mode \in {"box", "polygon"} : PromptClosed /\ setDrawingMode(mode)
    \/ PromptClosed /\ CancelVisible /\ cancelDrawing
    \/ \E key \in {"Escape"} : PromptClosed /\ handleKeyDown(key, FALSE, FALSE)
    \/ \E p \in DrawPoints :
          /\ PromptClosed
          /\ drawingMode = "none" \/ CanDraw
          /\ handleMouseDown(p)
    \/ \E p \in DrawPoints : PromptClosed /\ handleMouseMove(p)
    \/ PromptClosed /\ CanDraw /\ handleMouseUp
    \/ \E p \in NextCorner :
          /\ PromptClosed
          /\ CanDraw
          /\ ~CanFinish(currentPolygon)
          /\ handleCanvasClick(p)
    \/ PromptClosed /\ CanDraw /\ FinishVisible /\ finishPolygon
    \/ \E p \in DrawPoints :
          /\ PromptClosed
          /\ drawingMode = "none" \/ CanDraw
          /\ handleTouchStart(p)
    \/ \E p \in NextCorner :
          /\ PromptClosed
          /\ CanDraw
          /\ ~CanFinish(currentPolygon)
          /\ handleTouchEnd(p)
    \/ closeLabelInput

SpecDraw == Init /\ [][NextDraw]_vars

\* stored boxes without an id (`id?: string`), on the two DrawPoints
BareBoxA == [type |-> "box", x |-> 0, y |-> 0, w |-> 10, h |-> 10]

BareBoxB == [type |-> "box", x |-> 50, y |-> 50, w |-> 10, h |-> 10]

IdResponses == {<<StoredBox>>, <<BareBoxA, BareBoxB>>}

\* what is typed into the label prompt
Typed == {<<" ">>, <<" ", "a">>}

(* Identity of annotations: boxes are drawn while the clock may or may not *)
(* have moved on, the load returns boxes with or without ids, and the      *)
(* selection is deleted or labelled, by button and by key.                 *)
NextIds ==
    \/ \E loaded \in IdResponses : loadResolved(Response(loaded))
    \/ PromptClosed /\ setDrawingMode("box")
    \/ \E p \in DrawPoints :
          /\ PromptClosed
          /\ drawingMode = "none" \/ CanDraw
          /\ handleMouseDown(p)
    \/ \E p \in DrawPoints : PromptClosed /\ BoxDragInProgress /\ handleMouseMove(p)
    \/ PromptClosed /\ WithinLog /\ handleMouseUp
    \/ PromptClosed /\ openLabelInput
    \/ PromptClosed /\ selectedAnnotation # Null /\ WithinLog
          /\ deleteSelectedAnnotation
    \/ \E key \in {"Delete"} :
          PromptClosed /\ WithinLog /\ handleKeyDown(key, FALSE, FALSE)
    \/ \E text \in Typed : setLabelText(text)
    \/ closeLabelInput
    \/ showLabelInput /\ WithinLog /\ saveLabel
    \/ \E key \in {"Enter", "Escape", "Delete"} :
          WithinLog /\ labelInputKeyDown(key)
    \/ \E t \in Times : Tick(t)

SpecIds == Init /\ [][NextIds]_vars

\* save requests made in one session
MaxSaves == 2

(* Saving: the load returns [] or the stored box, the box from (10,10) to  *)
(* (60,60) is drawn, the set is cleared, undo and redo are used, and Save  *)
(* is clicked whenever its button is enabled; a request in flight resolves *)
(* or rejects at any moment.                                               *)
NextSave ==
    \/ \E loaded \in {<<>>, <<StoredBox>>} : loadResolved(Response(loaded))
    \/ PromptClosed /\ setDrawingMode("box")
    \/ \E p \in {<<10, 10>>} :
          PromptClosed /\ drawingMode = "box" /\ WithinLog /\ handleMouseDown(p)
    \/ \E p \in {<<60, 60>>} : PromptClosed /\ BoxDragInProgress /\ handleMouseMove(p)
    \/ PromptClosed /\ BoxDragInProgress /\ handleMouseUp
    \/ closeLabelInput
    \/ \E confirmed \in {TRUE} :
          PromptClosed /\ WithinLog /\ clearAllAnnotations(confirmed)
    \/ PromptClosed /\ canUndo /\ undo
    \/ PromptClosed /\ canRedo /\ redo
    \/ /\ PromptClosed
       /\ SaveEnabled
       /\ Len(alerts) + Len(saveCalls) < MaxSaves
       /\ saveAnnotations
    \/ \E i \in 1..Len(saveCalls), ok \in BOOLEAN : saveSettled(i, ok)

SpecSave == Init /\ [][NextSave]_vars

\* entries of a response body: two stored annotations, an object of a type
\* the editor does not draw, and malformed ones
NoTypeEntry == JObj([x |-> JNum(1), y |-> JNum(1)])

NoPointsEntry == JObj([type |-> JStr("polygon"), id |-> JStr("p")])

TextPointsEntry ==
    JObj([type |-> JStr("polygon"), points |-> JStr("10,10 20,20 10,20")])

TextXEntry ==
    JObj([type |-> JStr("box"), x |-> JStr("10"), y |-> JNum(10),
          w |-> JNum(50), h |-> JNum(50)])

NoHeightEntry ==
    JObj([type |-> JStr("box"), x |-> JNum(10), y |-> JNum(10), w |-> JNum(50)])

CircleEntry == JObj([type |-> JStr("circle"), id |-> JStr("c")])

RawEntries ==
    {Entry(StoredBox), Entry(Triangle), CircleEntry,
     JNull, JNum(5), NoTypeEntry, NoPointsEntry, TextPointsEntry,
     TextXEntry, NoHeightEntry}

\* entries in one response body
MaxEntries == 3

RawResponses == UNION {[1..n -> RawEntries] : n \in 0..MaxEntries}

(* Loading: the load completes with any body of RawResponses or fails,     *)
(* and is followed by presses in idle and a confirmed or declined          *)
(* clear-all.                                                              *)
NextLoad ==
    \/ \E loaded \in RawResponses : loadResolved(loaded)
    \/ loadRejected
    \/ \E confirmed \in BOOLEAN :
          loadState # "pending" /\ WithinLog /\ clearAllAnnotations(confirmed)
    \/ \E p \in {<<10, 10>>, <<0, 0>>} :
          loadState # "pending" /\ handleMouseDown(p)

SpecLoad == Init /\ [][NextLoad]_vars

\* event.key for the keys Z and Y: the letter in the case that Shift and
\* Caps Lock give it
KeyValues == {"z", "Z", "y", "Y"}

(* Keyboard shortcuts: the keys Z and Y and Delete pressed with and        *)
(* without the primary modifier and Shift, next to the Undo and Redo       *)
(* buttons, after the load and clear-alls have filled the log.             *)
NextKeys ==
    \/ \E loaded \in {<<StoredBox>>} : loadResolved(Response(loaded))
    \/ \E confirmed \in {TRUE} : WithinLog /\ clearAllAnnotations(confirmed)
    \/ \E p \in {<<10, 10>>} : handleMouseDown(p)
    \/ canUndo /\ undo
    \/ canRedo /\ redo
    \/ \E key \in KeyValues \cup {"Delete"}, mod \in BOOLEAN, shift \in BOOLEAN :
          WithinLog /\ handleKeyDown(key, mod, shift)

SpecKeys == Init /\ [][NextKeys]_vars

\* instants the clock shows during a touch that starts at the first one
TouchTimes == {1000, 1299, 1300}

\* a finger is on the canvas: the last event was a touch start or a touch
\* move, or time has passed since one
Touching == lastOp.op \in {"handleTouchStart", "handleTouchMove", "Tick"}

\* the click the browser dispatches on the canvas after a touch that has
\* ended without moving and whose touch events were not default-prevented:
\* in polygon mode neither handleTouchStart nor handleTouchEnd calls
\* preventDefault
compatibilityClick ==
    /\ lastOp.op = "handleTouchEnd" /\ lastOp.branch = "tap"
    /\ handleCanvasClick(lastOp.at)

\* positions of touches
TapPoints == {<<0, 0>>, <<10, 0>>}

(* Touch input in polygon mode: the Polygon tool, touches on TapPoints     *)
(* that start, may move, last for some time and end, each followed by the  *)
(* browser's compatibility click when it was a tap, finish by its button,  *)
(* cancel, and closing the label prompt.  There is no mouse.               *)
NextTouch ==
    \/ PromptClosed /\ ~Touching /\ setDrawingMode("polygon")
    \/ PromptClosed /\ ~Touching /\ CancelVisible /\ cancelDrawing
    \/ PromptClosed /\ ~Touching /\ FinishVisible
          /\ Len(annotations) < MaxPolygons /\ finishPolygon
    \/ \E p \in TapPoints :
          /\ PromptClosed /\ ~Touching
          /\ Len(annotations) < MaxPolygons
          /\ Len(currentPolygon) < MaxVertices
          /\ handleTouchStart(p)
    \/ \E p \in TapPoints : Touching /\ handleTouchMove(p)
    \/ \E t \in TouchTimes : Touching /\ Tick(t)
    \/ \E p \in TapPoints : Touching /\ handleTouchEnd(p)
    \/ compatibilityClick
    \/ closeLabelInput

SpecTouch == Init /\ [][NextTouch]_vars

\* polygons the load filter keeps whose vertex data is not valid: each is the
\* square (0,0), (20,0), (20,20), (0,20) around box A with one defect
EmptyPointsEntry ==
    JObj([type |-> JStr("polygon"), points |-> JArr(<<>>), id |-> JStr("e")])

TextCoordinateEntry ==
    JObj([type |-> JStr("polygon"), id |-> JStr("s"),
          points |-> JArr(<<JArr(<<JStr("0"), JNum(0)>>), Vertex(<<20, 0>>),
                            Vertex(<<20, 20>>), Vertex(<<0, 20>>)>>)])

NumberVertexEntry ==
    JObj([type |-> JStr("polygon"), id |-> JStr("n"),
          points |-> JArr(<<Vertex(<<0, 0>>), Vertex(<<20, 0>>), JNum(7),
                            Vertex(<<20, 20>>), Vertex(<<0, 20>>)>>)])

ShortVertexEntry ==
    JObj([type |-> JStr("polygon"), id |-> JStr("h"),
          points |-> JArr(<<Vertex(<<0, 0>>), Vertex(<<20, 0>>),
                            JArr(<<JNum(20)>>), Vertex(<<0, 20>>)>>)])

NullVertexEntry ==
    JObj([type |-> JStr("polygon"), id |-> JStr("u"),
          points |-> JArr(<<Vertex(<<0, 0>>), JNull, Vertex(<<20, 20>>),
                            Vertex(<<0, 20>>)>>)])

InvalidVertexEntries ==
    {EmptyPointsEntry, TextCoordinateEntry, NumberVertexEntry,
     ShortVertexEntry, NullVertexEntry}

VertexEntries == {Entry(BoxA), Entry(Triangle)} \cup InvalidVertexEntries

VertexResponses == UNION {[1..n -> VertexEntries] : n \in 0..MaxEntries}

\* pointer positions over these shapes: in box A, in the triangle only, and
\* outside both
VertexPoints == {<<5, 5>>, <<20, 10>>, <<30, 30>>}

(* Hit-testing over loaded vertex data: the load completes with any body   *)
(* of VertexResponses and the canvas gets presses in idle at VertexPoints. *)
NextVertex ==
    \/ \E loaded \in VertexResponses : loadResolved(loaded)
    \/ \E p \in VertexPoints : handleMouseDown(p)
    \/ \E p \in VertexPoints : handleTouchStart(p)

SpecVertex == Init /\ [][NextVertex]_vars

\* vertex coordinates of the containment scenarios run from 0 to GridMax
GridMax == 3

GridVertices == (0..GridMax) \X (0..GridMax)

\* twice the signed area of the triangle a, b, c: positive for a left turn
Cross(a, b, c) ==
    (b[1] - a[1]) * (c[2] - a[2]) - (b[2] - a[2]) * (c[1] - a[1])

\* the vertex after j in a list of n vertices
After(j, n) == IF j = n THEN 1 ELSE j + 1

\* the turns at the vertices of a list all go strictly the same way `sign`
TurnsAll(points, sign) ==
    LET n == Len(points)
    IN  \A j \in 1..n :
            sign * Cross(points[j], points[After(j, n)],
                         points[After(After(j, n), n)]) > 0

\* a triangle or quadrilateral in strictly convex position, in either
\* orientation and from any first vertex
IsConvex(points) == TurnsAll(points, 1) \/ TurnsAll(points, -1)

\* two polygons that are not convex: a bow-tie and an arrow head
BowTie == <<<<0, 0>>, <<3, 3>>, <<3, 0>>, <<0, 3>>>>

ArrowHead == <<<<0, 0>>, <<3, 1>>, <<0, 3>>, <<1, 1>>>>

\* the place of a grid vertex in the order by x, then y
Rank(v) == v[1] * (GridMax + 1) + v[2]

\* the vertex lists of the containment scenarios: every list of three grid
\* vertices, every convex quadrilateral listed from its first vertex in
\* that order, in both orientations, and the two polygons above
RayPolygons ==
    [1..3 -> GridVertices]
        \cup {q \in [1..4 -> GridVertices] :
                 IsConvex(q) /\ \A j \in 2..4 : Rank(q[1]) < Rank(q[j])}
        \cup {BowTie, ArrowHead}

\* the stored polygon with these vertices
StoredPolygon(points) ==
    [type |-> "polygon", points |-> Vertices(points), id |-> "c",
     label |-> <<>>]

\* pointer positions over the grid and one step around it
RayPoints == (-1..(GridMax + 1)) \X (-1..(GridMax + 1))

\* the positions pressed: inside the grid and outside it
RayPresses == {<<1, 2>>, <<-1, 1>>}

(* Containment: the load completes with one polygon of RayPolygons and the *)
(* canvas gets presses in idle at RayPresses.                              *)
NextRay ==
    \/ /\ loadState = "pending"
       /\ \E points \in RayPolygons :
             loadResolved(Response(<<StoredPolygon(points)>>))
    \/ \E p \in RayPresses : handleMouseDown(p)

SpecRay == Init /\ [][NextRay]_vars

\* positions of the touches that may be cancelled: a drag from (0,0) to
\* (10,10) is 10 wide and high, one to (60,60) is 60
CancelPoints == {<<0, 0>>, <<10, 10>>, <<60, 60>>}

(* Touches that end or are cancelled: either tool, touches on CancelPoints *)
(* that start, may move, last for some time and then end or are cancelled  *)
(* by the browser, and closing the label prompt.  There is no mouse.       *)
NextCancel ==
    \/ \E mode \in {"box", "polygon"} :
          PromptClosed /\ ~Touching /\ setDrawingMode(mode)
    \/ \E p \in CancelPoints :
          /\ PromptClosed /\ ~Touching
          /\ CanDraw
          /\ Len(currentPolygon) < MaxVertices
          /\ handleTouchStart(p)
    \/ \E p \in CancelPoints : Touching /\ handleTouchMove(p)
    \/ \E t \in TouchTimes : Touching /\ Tick(t)
    \/ \E p \in CancelPoints : Touching /\ handleTouchEnd(p)
    \/ \E p \in CancelPoints : Touching /\ handleTouchCancel(p)
    \/ closeLabelInput

SpecCancel == Init /\ [][NextCancel]_vars

\* export requests made in one session
MaxExports == 2

(* Export: the three export buttons are clicked at any moment with the     *)
(* prompt closed, and a request in flight succeeds or fails at any moment, *)
(* while the load completes, the Box tool is chosen, the box from (10,10)  *)
(* to (60,60) is drawn and selected, and undo is used.                     *)
NextExport ==
    \/ \E loaded \in {<<StoredBox>>} : loadResolved(Response(loaded))
    \/ PromptClosed /\ setDrawingMode("box")
    \/ \E p \in {<<10, 10>>} : PromptClosed /\ WithinLog /\ handleMouseDown(p)
    \/ \E p \in {<<60, 60>>} : PromptClosed /\ BoxDragInProgress /\ handleMouseMove(p)
    \/ PromptClosed /\ BoxDragInProgress /\ handleMouseUp
    \/ closeLabelInput
    \/ PromptClosed /\ canUndo /\ undo
    \/ \E format \in {"json", "coco", "yolo"} :
          /\ PromptClosed
          /\ Len(downloadCalls) + Len(downloads) + Len(alerts) < MaxExports
          /\ downloadAnnotations(format)
    \/ \E i \in 1..Len(downloadCalls), ok \in BOOLEAN : downloadSettled(i, ok)

SpecExport == Init /\ [][NextExport]_vars

(* Requests in flight: the load returns the stored box, Save is clicked    *)
(* whenever its button is enabled and the export buttons at any moment,    *)
(* and every request in flight succeeds or fails at any moment.            *)
NextFlight ==
    \/ \E loaded \in {<<StoredBox>>} : loadResolved(Response(loaded))
    \/ /\ SaveEnabled
       /\ Len(alerts) + Len(downloads) + Len(saveCalls) + Len(downloadCalls)
              < MaxSaves + MaxExports
       /\ saveAnnotations
    \/ \E i \in 1..Len(saveCalls), ok \in BOOLEAN : saveSettled(i, ok)
    \/ \E format \in {"json", "coco", "yolo"} :
          /\ Len(alerts) + Len(downloads) + Len(saveCalls) + Len(downloadCalls)
                 < MaxSaves + MaxExports
          /\ downloadAnnotations(format)
    \/ \E i \in 1..Len(downloadCalls), ok \in BOOLEAN : downloadSettled(i, ok)

SpecFlight == Init /\ [][NextFlight]_vars

(* Editing and history: every operation that pushes to the log (load, box  *)
(* commit, delete, label, clear-all) with undo and redo by button and by   *)
(* key; one drag, from (10,10) to (60,60) or back.                         *)
NextHist ==
    \/ \E loaded \in {<<StoredBox>>} : loadResolved(Response(loaded))
    \/ loadRejected
    \/ PromptClosed /\ setDrawingMode("box")
    \/ \E p \in {<<10, 10>>, <<60, 60>>} :
          PromptClosed /\ WithinLog /\ handleMouseDown(p)
    \/ \E p \in {<<10, 10>>, <<60, 60>>} :
          PromptClosed /\ BoxDragInProgress /\ handleMouseMove(p)
    \/ PromptClosed /\ BoxDragInProgress /\ handleMouseUp
    \/ PromptClosed /\ canUndo /\ undo
    \/ PromptClosed /\ canRedo /\ redo
    \/ PromptClosed /\ openLabelInput
    \/ PromptClosed /\ selectedAnnotation # Null /\ WithinLog
          /\ deleteSelectedAnnotation
    \/ \E confirmed \in BOOLEAN :
          PromptClosed /\ WithinLog /\ clearAllAnnotations(confirmed)
    \/ \E text \in {<<" ", "a">>} : setLabelText(text)
    \/ closeLabelInput
    \/ showLabelInput /\ WithinLog /\ saveLabel
    \/ \E key \in {"z", "y", "Delete"}, mod \in BOOLEAN, shift \in BOOLEAN :
          /\ WithinLog
          /\ mod \/ (key = "Delete" /\ selectedAnnotation # Null)
          /\ handleKeyDown(key, mod, shift)

SpecHist == Init /\ [][NextHist]_vars

(* The log at its cap: clear-all pushes until the log is full and beyond,  *)
(* with undo and redo by button and by key and the load completing at any  *)
(* moment.                                                                 *)
NextCap ==
    \/ \E loaded \in {<<StoredBox>>} : loadResolved(Response(loaded))
    \/ \E confirmed \in BOOLEAN : clearAllAnnotations(confirmed)
    \/ canUndo /\ undo
    \/ canRedo /\ redo
    \/ \E key \in {"z", "y"} : handleKeyDown(key, TRUE, FALSE)

SpecCap == Init /\ [][NextCap]_vars

----------------------------------------------------------------------------
(* Properties *)

history == undoRedoState.history

currentIndex == undoRedoState.currentIndex

\* the branches of the handlers that call addToHistory
PushBranches == {"resolved", "commit", "deleted", "cleared", "saved"}

\* the step just taken pushed to the log
Pushed == lastOp'.branch \in PushBranches

\* every annotation of the live set and of every snapshot
Stored ==
    {annotations[i] : i \in 1..Len(annotations)} \cup
    UNION {{history[k].annotations[i] : i \in 1..Len(history[k].annotations)} :
           k \in 1..Len(history)}

\* C1: wherever undo() can step back, or the cursor is at the end of the log
\* (the state any sequence of pushes leaves), undo() followed by redo() gives
\* back the live Annotation Set, and the log and cursor, it started from.
C1_UndoRedoRoundTrip ==
    LET u == UndoResult(undoRedoState, annotations)
        r == RedoResult(u.state, u.annotations)
    IN  (canUndo \/ ~canRedo) =>
            /\ r.annotations = annotations
            /\ r.state = undoRedoState

\* a redo has just brought the cursor back to the end of a log of several
\* entries, after undo had moved it away
C1_Witness ==
    /\ lastOp.op = "redo" /\ lastOp.branch = "moved"
    /\ ~canRedo
    /\ Len(history) >= 2
    /\ annotations # history[currentIndex].annotations

\* C2: a push keeps the entries up to the cursor, discards every entry after
\* it and appends the snapshot of the new live set; after it the cursor is the
\* last index and redo() can do nothing.
C2_PushDiscardsFuture ==
    [][Pushed =>
          /\ Len(history') = currentIndex + 2
          /\ SubSeq(history', 1, currentIndex + 1) =
                SubSeq(history, 1, currentIndex + 1)
          /\ history'[Len(history')].annotations = annotations'
          /\ currentIndex' = Len(history') - 1
          /\ ~canRedo'
          /\ RedoResult(undoRedoState', annotations').annotations = annotations'
      ]_vars

\* a push has just been made from a cursor that had entries after it
C2_Witness ==
    /\ lastOp.branch \in PushBranches
    /\ lastOp.future
    /\ currentIndex = lastOp.idx + 1
    /\ Len(history) = currentIndex + 1

\* C3: the log never holds more than 50 entries; a push onto a full log whose
\* cursor is at the end drops entry 0, keeps the others in order, appends the
\* new snapshot and leaves the cursor on it, at index 49.
C3_CapAndEviction ==
    [][/\ Len(history') <= 50
       /\ (Pushed /\ Len(history) = 50 /\ currentIndex = 49) =>
             /\ Len(history') = 50
             /\ SubSeq(history', 1, 49) = SubSeq(history, 2, 50)
             /\ history'[50].annotations = annotations'
             /\ currentIndex' = 49
      ]_vars

\* a push has just been made onto a full log
C3_Witness ==
    /\ lastOp.branch = "cleared"
    /\ lastOp.idx = 49
    /\ Len(history) = 50
    /\ currentIndex = 49

\* C4: the cursor is a valid index whenever the log has an entry, and is -1
\* exactly while the log is empty.
C4_CursorValid ==
    /\ Len(history) >= 1 => (0 <= currentIndex /\ currentIndex <= Len(history) - 1)
    /\ Len(history) = 0 <=> currentIndex = -1

\* the log is full, the loaded entry is no longer in it, and undo has just
\* stepped back from the last index
C4_Witness ==
    /\ Len(history) = 50
    /\ loadState = "done"
    /\ \A k \in 1..50 : history[k].annotations = <<>>
    /\ lastOp.op = "undo" /\ lastOp.idx = 49
    /\ currentIndex = 48

\* C5: undo() with the cursor at 0 or the log empty, and redo() with the
\* cursor at the last index, change nothing: not the log, the cursor or the
\* live set, nor anything else of the editor.
C5_NoOpAtEnds ==
    [][/\ (lastOp'.op = "undo" /\ currentIndex <= 0) => UNCHANGED prog
       /\ (lastOp'.op = "redo" /\ currentIndex >= Len(history) - 1) =>
             UNCHANGED prog
      ]_vars

\* undo() has just been called with the cursor at 0 and a live set that is
\* not empty
C5_Witness ==
    /\ lastOp.op = "undo"
    /\ lastOp.idx = 0
    /\ currentIndex = 0
    /\ annotations # <<>>

\* C6: undo() and redo() leave every entry of the log as it is, move the
\* cursor by exactly one when they can move, and make the snapshot at the new
\* cursor the live set; and no step of the editor changes an entry that
\* stays in the log (the entries up to the cursor, when the step pushes).
C6_EntriesImmutable ==
    [][/\ lastOp'.op \in {"undo", "redo"} =>
             /\ history' = history
             /\ (lastOp'.op = "undo" /\ currentIndex > 0) =>
                   currentIndex' = currentIndex - 1
             /\ (lastOp'.op = "redo" /\ currentIndex < Len(history) - 1) =>
                   currentIndex' = currentIndex + 1
             /\ currentIndex' # currentIndex =>
                   annotations' = history[currentIndex' + 1].annotations
       /\ ~Pushed => history' = history
       /\ \A k \in 1..Len(history) :
             (k <= currentIndex + 1 /\ k <= Len(history')) =>
                 history'[k] = history[k]
      ]_vars

\* undo has just stepped back to a snapshot that differs from the one after
\* it, which is still in the log
C6_Witness ==
    /\ lastOp.op = "undo" /\ lastOp.branch = "moved"
    /\ canRedo
    /\ annotations = history[currentIndex + 1].annotations
    /\ annotations # history[currentIndex + 2].annotations

\* C7: a pointer-up or touch-end that ends a box drag whose extent has
\* |w| <= 10 or |h| <= 10 appends nothing and pushes nothing; the box in
\* progress is dropped and the mode is none afterwards.
C7_SmallBoxDiscarded ==
    [][(/\ lastOp'.op \in {"handleMouseUp", "handleTouchEnd"}
        /\ drawingMode = "box" /\ isDrawing /\ currentBox # Null
        /\ (Abs(currentBox.w) <= 10 \/ Abs(currentBox.h) <= 10)) =>
          /\ annotations' = annotations
          /\ undoRedoState' = undoRedoState
          /\ currentBox' = Null
          /\ isDrawing' = FALSE
          /\ drawingMode' = "none"
      ]_vars

\* a drag has just been ended and discarded
C7_Witness ==
    /\ lastOp.op \in {"handleMouseUp", "handleTouchEnd"}
    /\ lastOp.branch = "discard"
    /\ drawingMode = "none"
    /\ currentBox = Null

\* C8: finishPolygon with fewer than 3 vertices appends nothing and pushes
\* nothing, and no polygon of fewer than 3 points is in the live set or in a
\* snapshot.
C8_ShortPolygonDiscarded ==
    [][/\ (lastOp'.op = "finishPolygon" /\ Len(currentPolygon) < 3) =>
             /\ annotations' = annotations
             /\ undoRedoState' = undoRedoState
       /\ \A a \in Stored' : a.type = "polygon" => Len(a.points) >= 3
      ]_vars

\* finishPolygon has just run on a polygon in progress of 1 or 2 vertices
C8_Witness ==
    /\ lastOp.op = "finishPolygon"
    /\ lastOp.branch = "short"
    /\ annotations = <<>>
    /\ currentPolygon = <<>>
    /\ drawingMode = "none"

\* C9: a pointer-up or touch-end that ends a box drag from anchor (x0,y0) to
\* (x1,y1) with |x1-x0| > 10 and |y1-y0| > 10 appends exactly one box, with
\* x = min(x0,x1), y = min(y0,y1), w = |x1-x0|, h = |y1-y0|; the drags from
\* (10,10) to (60,60) and from (60,60) to (10,10) both give 10, 10, 50, 50.
C9_BoxNormalised ==
    [][(/\ lastOp'.op \in {"handleMouseUp", "handleTouchEnd"}
        /\ drawingMode = "box" /\ isDrawing /\ currentBox # Null
        /\ Abs(currentBox.w) > 10 /\ Abs(currentBox.h) > 10) =>
          LET x0 == currentBox.x
              y0 == currentBox.y
              x1 == currentBox.x + currentBox.w
              y1 == currentBox.y + currentBox.h
              new == annotations'[Len(annotations')]
          IN  /\ Len(annotations') = Len(annotations) + 1
              /\ SubSeq(annotations', 1, Len(annotations)) = annotations
              /\ new.type = "box"
              /\ new.x = (IF x0 <= x1 THEN x0 ELSE x1)
              /\ new.y = (IF y0 <= y1 THEN y0 ELSE y1)
              /\ new.w = (IF x0 <= x1 THEN x1 - x0 ELSE x0 - x1)
              /\ new.h = (IF y0 <= y1 THEN y1 - y0 ELSE y0 - y1)
              /\ (<<x0, y0, x1, y1>> \in {<<10, 10, 60, 60>>, <<60, 60, 10, 10>>}) =>
                    <<new.x, new.y, new.w, new.h>> = <<10, 10, 50, 50>>
      ]_vars

\* a drag with a negative delta has just been committed: the box 20, 10, 40,
\* 50 comes only from (60,10) to (20,60) or from (20,60) to (60,10)
C9_Witness ==
    /\ lastOp.op \in {"handleMouseUp", "handleTouchEnd"}
    /\ lastOp.branch = "commit"
    /\ Len(annotations) >= 1
    /\ LET new == annotations[Len(annotations)]
       IN  <<new.x, new.y, new.w, new.h>> = <<20, 10, 40, 50>>

\* the boxes the load call can return
LoadedBoxes ==
    UNION {{loaded[i] : i \in 1..Len(loaded)} : loaded \in LoadResponses}

\* C10 as stated: every box of the live set and of every snapshot, the
\* loaded ones included, has w >= 0 and h >= 0.
C10_AllBoxesNonNegative ==
    \A a \in Stored : a.type = "box" => (a.w >= 0 /\ a.h >= 0)

\* C10, amended: every box of the live set and of every snapshot that was
\* committed by drawing has w >= 0 and h >= 0; a box with a negative extent
\* is one the load call returned.
C10_DrawnBoxesNonNegative ==
    \A a \in Stored :
        (a.type = "box" /\ (a.w < 0 \/ a.h < 0)) => a \in LoadedBoxes

\* a box drawn with a negative delta has been committed next to a loaded box
\* of negative extent
C10_Witness ==
    /\ Len(annotations) = 2
    /\ annotations[1] = StoredNegativeBox
    /\ lastOp.branch = "commit"
    /\ <<annotations[2].x, annotations[2].y, annotations[2].w, annotations[2].h>>
          = <<20, 10, 40, 50>>

\* C11: in polygon mode every click or tap appends its point after the
\* vertices already there, nothing else adds or reorders a vertex, and finish
\* on n >= 3 vertices appends exactly one polygon whose points are those
\* vertices in click order; clicks at (0,0), (10,0), (10,10) commit a polygon
\* with those three points in that order.
C11_PolygonInClickOrder ==
    [][/\ (lastOp'.op \in {"handleCanvasClick", "handleTouchEnd"}
           /\ lastOp'.branch \in {"vertex", "tap"}) =>
             /\ Len(currentPolygon') = Len(currentPolygon) + 1
             /\ SubSeq(currentPolygon', 1, Len(currentPolygon)) = currentPolygon
             /\ currentPolygon'[Len(currentPolygon')] = lastOp'.at
       /\ lastOp'.branch \notin {"vertex", "tap"} =>
             currentPolygon' \in {currentPolygon, <<>>}
       /\ (lastOp'.op = "finishPolygon" /\ Len(currentPolygon) >= 3) =>
             /\ Len(annotations') = Len(annotations) + 1
             /\ SubSeq(annotations', 1, Len(annotations)) = annotations
             /\ annotations'[Len(annotations')].type = "polygon"
             /\ annotations'[Len(annotations')].points = Vertices(currentPolygon)
             /\ (currentPolygon = <<<<0, 0>>, <<10, 0>>, <<10, 10>>>>) =>
                   annotations'[Len(annotations')].points =
                       <<Vertex(<<0, 0>>), Vertex(<<10, 0>>), Vertex(<<10, 10>>)>>
      ]_vars

\* finish has just committed the polygon clicked at (0,0), (10,0), (10,10)
C11_Witness ==
    /\ lastOp.op = "finishPolygon" /\ lastOp.branch = "commit"
    /\ Len(annotations) = 1
    /\ annotations[1].type = "polygon"
    /\ annotations[1].points =
           <<Vertex(<<0, 0>>), Vertex(<<10, 0>>), Vertex(<<10, 10>>)>>

\* the annotation of the highest index among those the point hits, or Null
TopmostHit(p) ==
    LET hit == {i \in 1..Len(annotations) : Hits(annotations[i], p[1], p[2])}
    IN  IF hit = {} THEN Null
        ELSE annotations[CHOOSE i \in hit : \A k \in hit : k <= i]

\* C12: findAnnotationAt returns the annotation of the highest index among
\* those containing the point, or none when no annotation contains it, and
\* that is what a press in idle selects; over boxes A then B, both containing
\* (5,5), it returns B.
C12_TopmostAnnotationHit ==
    [][/\ \A p \in HitPoints : findAnnotationAt(p[1], p[2]) = TopmostHit(p)
       /\ annotations = <<BoxA, BoxB>> => findAnnotationAt(5, 5) = BoxB
       /\ (lastOp'.op \in {"handleMouseDown", "handleTouchStart"}
           /\ lastOp'.branch = "select") =>
             selectedAnnotation' = TopmostHit(lastOp'.at)
      ]_vars

\* a press at (5,5) over A then B has just selected B
C12_Witness ==
    /\ annotations = <<BoxA, BoxB>>
    /\ lastOp.branch = "select" /\ lastOp.at = <<5, 5>>
    /\ selectedAnnotation = BoxB

\* box.x <= P.x <= box.x + box.w and box.y <= P.y <= box.y + box.h
PointInBox(box, p) ==
    /\ box.x <= p[1] /\ p[1] <= box.x + box.w
    /\ box.y <= p[2] /\ p[2] <= box.y + box.h

\* C13: over a set of boxes, a press in idle selects a box that contains the
\* point, boundaries included, and selects nothing exactly when no box
\* contains it; (5,5) matches the box 0, 0, 10, 10 and (15,15) does not.
C13_BoxContainment ==
    [][(/\ lastOp'.op \in {"handleMouseDown", "handleTouchStart"}
        /\ lastOp'.branch = "select"
        /\ \A i \in 1..Len(annotations) : annotations[i].type = "box") =>
          /\ selectedAnnotation' # Null =>
                PointInBox(selectedAnnotation', lastOp'.at)
          /\ selectedAnnotation' = Null <=>
                \A i \in 1..Len(annotations) :
                    ~PointInBox(annotations[i], lastOp'.at)
          /\ (annotations = <<BoxA>> /\ lastOp'.at = <<5, 5>>) =>
                selectedAnnotation' = BoxA
          /\ (annotations = <<BoxA>> /\ lastOp'.at = <<15, 15>>) =>
                selectedAnnotation' = Null
      ]_vars

\* a press on the corner (10,10) of the box 0, 0, 10, 10 has just selected it
C13_Witness ==
    /\ annotations = <<BoxA>>
    /\ lastOp.branch = "select" /\ lastOp.at = <<10, 10>>
    /\ selectedAnnotation = BoxA

\* the handlers of the canvas events
CanvasOps ==
    {"handleMouseDown", "handleMouseMove", "handleMouseUp", "handleCanvasClick",
     "handleTouchStart", "handleTouchMove", "handleTouchEnd"}

\* C14: with mode = none a press, release, click or tap on the canvas leaves
\* the live set, the log, the cursor, the mode and the shapes in progress as
\* they are and opens no prompt; a press or touch-start sets the selection to
\* the hit-tested annotation, or to none when nothing is hit, and the other
\* canvas events leave the selection alone.
C14_IdleClickOnlySelects ==
    [][(lastOp'.op \in CanvasOps /\ drawingMode = "none") =>
          /\ UNCHANGED <<annotations, undoRedoState, drawingMode, currentBox,
                         currentPolygon, isDrawing, showLabelInput, labelText>>
          /\ lastOp'.op \in {"handleMouseDown", "handleTouchStart"} =>
                selectedAnnotation' = findAnnotationAt(lastOp'.at[1], lastOp'.at[2])
          /\ lastOp'.op \notin {"handleMouseDown", "handleTouchStart"} =>
                UNCHANGED selectedAnnotation
      ]_vars

\* a press in idle at (0,0) has just left nothing selected, over the loaded
\* box, which a press at (60,60) hits, the log holding an earlier entry too
C14_Witness ==
    /\ lastOp.op \in {"handleMouseDown", "handleTouchStart"}
    /\ lastOp.branch = "select"
    /\ lastOp.at = <<0, 0>>
    /\ selectedAnnotation = Null
    /\ annotations = <<StoredBox>>
    /\ findAnnotationAt(60, 60) = StoredBox
    /\ Len(history) >= 2

\* C15: the Cancel button and the Escape key drop the box in progress and the
\* vertex list, end the drag and set the mode to none, whatever the drawing
\* state was; they leave the live set and the log as they are; Escape clears
\* the selection and Cancel keeps it.
C15_CancelDiscards ==
    [][(lastOp'.op = "cancelDrawing" \/ lastOp'.branch = "Escape") =>
          /\ currentBox' = Null
          /\ currentPolygon' = <<>>
          /\ isDrawing' = FALSE
          /\ drawingMode' = "none"
          /\ UNCHANGED <<annotations, undoRedoState>>
          /\ lastOp'.branch = "Escape" => selectedAnnotation' = Null
          /\ lastOp'.op = "cancelDrawing" => UNCHANGED selectedAnnotation
      ]_vars

\* Escape has just been pressed in polygon mode with two vertices clicked, a
\* box drag left in progress and an annotation selected
C15_Witness ==
    /\ lastOp.branch = "Escape"
    /\ lastOp.drawing = <<"polygon", TRUE, TRUE, 2, TRUE>>
    /\ annotations # <<>>
    /\ drawingMode = "none" /\ currentPolygon = <<>> /\ currentBox = Null

\* C18: a box or polygon commit appends the new annotation after the ones
\* already there, which stay as they are and in order, with exactly one push
\* to the log; the new annotation becomes the selection, the label prompt
\* opens with empty text, the shape that was committed is no longer in
\* progress and the mode is none.
C18_CommitEffects ==
    [][lastOp'.branch = "commit" =>
          LET new == annotations'[Len(annotations')]
          IN  /\ Len(annotations') = Len(annotations) + 1
              /\ SubSeq(annotations', 1, Len(annotations)) = annotations
              /\ new.type = (IF lastOp'.op = "finishPolygon" THEN "polygon"
                                                              ELSE "box")
              /\ Len(history') = currentIndex + 2
              /\ SubSeq(history', 1, currentIndex + 1) =
                    SubSeq(history, 1, currentIndex + 1)
              /\ history'[Len(history')].annotations = annotations'
              /\ currentIndex' = currentIndex + 1
              /\ selectedAnnotation' = new
              /\ showLabelInput' = TRUE
              /\ labelText' = <<>>
              /\ drawingMode' = "none"
              /\ lastOp'.op = "finishPolygon" => currentPolygon' = <<>>
              /\ lastOp'.op # "finishPolygon" =>
                    (currentBox' = Null /\ isDrawing' = FALSE)
      ]_vars

\* a polygon has just been committed after the loaded box
C18_Witness ==
    /\ lastOp.op = "finishPolygon" /\ lastOp.branch = "commit"
    /\ Len(annotations) = 2
    /\ annotations[1] = StoredBox
    /\ selectedAnnotation = annotations[2]
    /\ showLabelInput /\ labelText = <<>>
    /\ drawingMode = "none"

\* the same annotation but for its label
SameShape(a, b) == WithLabel(a, <<>>) = WithLabel(b, <<>>)

\* anns without its i-th element
Removed(anns, i) == SubSeq(anns, 1, i - 1) \o SubSeq(anns, i + 1, Len(anns))

\* exactly one push of the new live set has been made
OnePush ==
    /\ Len(history') = currentIndex + 2
    /\ SubSeq(history', 1, currentIndex + 1) = SubSeq(history, 1, currentIndex + 1)
    /\ history'[Len(history')].annotations = annotations'
    /\ currentIndex' = currentIndex + 1

\* C16 as stated: Delete, by key or by button, with an annotation selected
\* takes that annotation and no other out of the live set, keeping the rest
\* in order, with exactly one push, and clears the selection; the Delete key
\* with nothing selected changes nothing.
C16_DeleteOnlySelected ==
    [][/\ (lastOp'.op = "deleteSelectedAnnotation" /\ selectedAnnotation # Null) =>
             LET same == {i \in 1..Len(annotations) :
                             SameShape(annotations[i], selectedAnnotation)}
             IN  /\ IF same = {}
                    THEN annotations' = annotations
                    ELSE \E i \in same : annotations' = Removed(annotations, i)
                 /\ OnePush
                 /\ selectedAnnotation' = Null
       /\ (lastOp'.op = "handleKeyDown" /\ lastOp'.branch = "Delete") =>
             (selectedAnnotation = Null /\ UNCHANGED prog)
      ]_vars

\* C17 as stated: confirming the label prompt with text that is not empty
\* once trimmed gives the trimmed text as label to the selected annotation
\* and changes no other annotation, with exactly one push; cancelling, or
\* confirming with empty or blank text, leaves the live set and the log as
\* they are; the prompt is closed afterwards in every case.
C17_LabelOnlySelected ==
    [][/\ (lastOp'.op = "saveLabel" /\ selectedAnnotation # Null
           /\ Trim(labelText) # <<>>) =>
             /\ Len(annotations') = Len(annotations)
             /\ \A i \in 1..Len(annotations) :
                   IF SameShape(annotations[i], selectedAnnotation)
                   THEN annotations'[i] = WithLabel(annotations[i], Trim(labelText))
                   ELSE annotations'[i] = annotations[i]
             /\ Cardinality({i \in 1..Len(annotations) :
                                annotations'[i] # annotations[i]}) <= 1
             /\ OnePush
       /\ (\/ lastOp'.op = "closeLabelInput"
           \/ lastOp'.op = "labelInputKeyDown"
           \/ lastOp'.op = "saveLabel" /\ Trim(labelText) = <<>>) =>
             UNCHANGED <<annotations, undoRedoState>>
       /\ lastOp'.op \in {"saveLabel", "closeLabelInput", "labelInputKeyDown"} =>
             showLabelInput' = FALSE
      ]_vars

\* the ids of a sequence of annotations are pairwise different
IdsDistinct(anns) ==
    \A i, k \in 1..Len(anns) :
        (i # k /\ IdOf(anns[i]) # Undefined) => IdOf(anns[i]) # IdOf(anns[k])

\* C19 as stated: the id a commit gives to the new annotation is the id of no
\* annotation committed or loaded before, and no two annotations of the live
\* set share an id.
C19_IdsUnique ==
    [][/\ lastOp'.branch = "commit" =>
             \A a \in Stored : IdOf(a) # IdOf(annotations'[Len(annotations')])
       /\ IdsDistinct(annotations')
      ]_vars

\* C20: Save puts in flight one request for the image whose body is the
\* live set as it is when Save is clicked (the one box 10, 10, 50, 50 after
\* one commit on an empty load, [] when nothing was drawn) and changes
\* nothing of the editor; no later step changes a request in flight, and the
\* completion of a request leaves the live set and the log as the edits made
\* meanwhile left them.
C20_SaveSendsLiveSet ==
    [][/\ (lastOp'.op = "saveAnnotations" /\ lastOp'.branch = "sent") =>
             /\ saveCalls' =
                   Append(saveCalls, [imageId |-> 1, body |-> annotations])
             /\ UNCHANGED <<annotations, undoRedoState, selectedAnnotation>>
             /\ (Len(annotations) = 1 /\ loadState = "done"
                 /\ history[1].annotations = <<>>) =>
                   /\ Len(saveCalls'[Len(saveCalls')].body) = 1
                   /\ LET b == saveCalls'[Len(saveCalls')].body[1]
                      IN  <<b.type, b.x, b.y, b.w, b.h>> = <<"box", 10, 10, 50, 50>>
       /\ lastOp'.op # "saveAnnotations" => saveCalls' = saveCalls
       /\ (lastOp'.op = "saveAnnotations" /\ lastOp'.branch # "sent") =>
             /\ UNCHANGED <<annotations, undoRedoState, selectedAnnotation>>
             /\ \A r \in {saveCalls'[i] : i \in 1..Len(saveCalls')} :
                   r \in {saveCalls[i] : i \in 1..Len(saveCalls)}
      ]_vars

\* the request sent after one commit on an empty load is in flight with the
\* one box 10, 10, 50, 50 as its body, and the live set has been emptied
\* since
C20_Witness ==
    /\ saving
    /\ Len(saveCalls) = 1
    /\ Len(saveCalls[1].body) = 1
    /\ saveCalls[1].body[1].w = 50
    /\ history[1].annotations = <<>>
    /\ annotations = <<>>
    /\ lastOp.op = "clearAllAnnotations"

\* C21: the completion of a save request, resolved or rejected, shows exactly
\* one message (the success message or the failure message), takes that
\* request out of flight, puts no request in flight and leaves the saving flag
\* false, so that the Save button is enabled again; it leaves the live set,
\* the log, the cursor and the selection as they are; sending a request
\* shows no message, and only a click on Save puts a request in flight.
C21_SaveCompletion ==
    [][/\ (lastOp'.op = "saveAnnotations"
           /\ lastOp'.branch \in {"resolved", "rejected"}) =>
             /\ Len(alerts') = Len(alerts) + 1
             /\ SubSeq(alerts', 1, Len(alerts)) = alerts
             /\ alerts'[Len(alerts')] =
                   (IF lastOp'.branch = "resolved"
                    THEN "Annotations saved successfully!"
                    ELSE "Failed to save annotations")
             /\ saving' = FALSE
             /\ SaveEnabled'
             /\ Len(saveCalls') = Len(saveCalls) - 1
             /\ UNCHANGED <<annotations, undoRedoState, selectedAnnotation>>
       /\ (lastOp'.op = "saveAnnotations" /\ lastOp'.branch = "sent") =>
             alerts' = alerts
       /\ ~(lastOp'.op = "saveAnnotations" /\ lastOp'.branch = "sent") =>
             Len(saveCalls') <= Len(saveCalls)
      ]_vars

\* a second request has just failed, sent by the user after the first one
\* failed, with a box in the live set
C21_Witness ==
    /\ lastOp.op = "saveAnnotations" /\ lastOp.branch = "rejected"
    /\ alerts = <<"Failed to save annotations", "Failed to save annotations">>
    /\ ~saving
    /\ saveCalls = <<>>
    /\ annotations # <<>>

\* an entry that is not an object, has no type, is a polygon without a points
\* array, or is a box one of whose x, y, w, h is not a number
Malformed(entry) ==
    \/ entry.t # "object"
    \/ "type" \notin DOMAIN entry.object
    \/ /\ entry.object.type.string = "polygon"
       /\ \/ "points" \notin DOMAIN entry.object
          \/ entry.object.points.t # "array"
    \/ /\ entry.object.type.string = "box"
       /\ \E f \in {"x", "y", "w", "h"} :
             f \notin DOMAIN entry.object \/ entry.object[f].t # "number"

\* C22: when the load completes with a list, the entries of the list that
\* are not malformed become the live set, in the order of the list, and the
\* newest entry of the log, by one push; the malformed ones are dropped and
\* the load is done, not failed.
C22_MalformedDropped ==
    [][(lastOp'.op = "loadAnnotations" /\ lastOp'.branch = "resolved") =>
          LET kept == SelectSeq(lastOp'.response, LAMBDA e : ~Malformed(e))
          IN  /\ Len(annotations') = Len(kept)
              /\ \A i \in 1..Len(kept) : annotations'[i] = Untag(kept[i])
              /\ OnePush
              /\ loadState' = "done"
      ]_vars

\* the load has just completed with the stored box, a box whose x is a
\* string, and the triangle: the box and the triangle are the live set
C22_Witness ==
    /\ lastOp.op = "loadAnnotations" /\ lastOp.branch = "resolved"
    /\ lastOp.response = <<Entry(StoredBox), TextXEntry, Entry(Triangle)>>
    /\ annotations = <<StoredBox, Triangle>>
    /\ history[Len(history)].annotations = <<StoredBox, Triangle>>
    /\ loadState = "done"

\* C23 as stated: the log is empty when the editor opens, and once the load
\* has completed entry 0 of the log, as long as no entry has been evicted, is
\* the set the load returned (the stored box, where the server holds it),
\* whether the user edited before or after the load completed.
C23_LogSeededWithLoadedSet ==
    /\ lastOp.op = "init" => history = <<>>
    /\ (loadState = "done" /\ Len(history) >= 1 /\ Len(history) < HistoryCap) =>
          history[1].annotations = <<StoredBox>>

\* C24 as stated: a press of the key Z or Y with the primary modifier held
\* is never left without effect by the keyboard listener: Z without Shift
\* is an undo, Z with Shift and Y are a redo; an undo moves the cursor back
\* by one or not at all, a redo forward by one or not at all, so no key press
\* does both.
C24_ShortcutsUndoRedo ==
    [][/\ (lastOp'.op = "handleKeyDown" /\ lastOp'.event # <<>>) =>
             ~(lastOp'.event[2] /\ lastOp'.event[1] \in KeyValues)
       /\ lastOp'.op = "undo" =>
             /\ currentIndex' = (IF canUndo THEN currentIndex - 1 ELSE currentIndex)
             /\ history' = history
       /\ lastOp'.op = "redo" =>
             /\ currentIndex' = (IF canRedo THEN currentIndex + 1 ELSE currentIndex)
             /\ history' = history
      ]_vars

\* C25: an export, of any of the three formats, changes nothing of the
\* editor when it is started, when it succeeds and when it fails: not the
\* live set, the log, the cursor, the selection, the mode or the shapes in
\* progress; the JSON export puts in flight the API service's download
\* request for the image, the COCO and YOLO exports the request of the file
\* in that format for the image; a failure shows one message and a success
\* none.
C25_ExportReadOnly ==
    [][lastOp'.op = "downloadAnnotations" =>
          /\ UNCHANGED <<annotations, undoRedoState, selectedAnnotation,
                         drawingMode, isDrawing, currentBox, currentPolygon,
                         showLabelInput, labelText, saving, saveCalls>>
          /\ lastOp'.branch = "json" =>
                /\ downloadCalls' = Append(downloadCalls,
                      [imageId |-> 1, format |-> "", via |-> "apiService"])
                /\ UNCHANGED <<alerts, downloads>>
          /\ lastOp'.branch \in {"coco", "yolo"} =>
                /\ downloadCalls' = Append(downloadCalls,
                      [imageId |-> 1, format |-> lastOp'.branch, via |-> "fetch"])
                /\ UNCHANGED <<alerts, downloads>>
          /\ lastOp'.branch = "rejected" =>
                /\ alerts' = Append(alerts, "Failed to download annotations")
                /\ Len(downloadCalls') = Len(downloadCalls) - 1
                /\ UNCHANGED downloads
          /\ lastOp'.branch = "resolved" =>
                /\ UNCHANGED alerts
                /\ Len(downloadCalls') = Len(downloadCalls) - 1
                /\ Len(downloads') = Len(downloads) + 1
      ]_vars

\* a COCO export has just failed, and a YOLO export is still in flight,
\* with a box drawn and selected and the log holding the load and the commit
C25_Witness ==
    /\ lastOp.op = "downloadAnnotations" /\ lastOp.branch = "rejected"
    /\ alerts = <<"Failed to download annotations">>
    /\ Len(downloadCalls) = 1 /\ downloadCalls[1].format = "yolo"
    /\ Len(annotations) = 2
    /\ selectedAnnotation = annotations[2]
    /\ Len(history) = 2

\* C26 as stated: in polygon mode the end of a touch appends the point of
\* the touch to the vertex list when no touch-move came since the touch
\* started and the touch lasted less than 300 ms, and leaves the list as it
\* is otherwise; and a vertex is appended at the end of a touch only, so
\* that a touch appends one vertex or none.
C26_TapAddsOneVertex ==
    [][/\ (lastOp'.op = "handleTouchEnd" /\ drawingMode = "polygon") =>
             IF ~touchMoved /\ now - touchStartTime < 300
             THEN /\ Len(currentPolygon') = Len(currentPolygon) + 1
                  /\ SubSeq(currentPolygon', 1, Len(currentPolygon)) = currentPolygon
             ELSE currentPolygon' = currentPolygon
       /\ Len(currentPolygon') > Len(currentPolygon) =>
             lastOp'.op = "handleTouchEnd"
      ]_vars

\* C27 as stated: whenever the mode is none there is no shape in progress:
\* the box in progress is null, the vertex list is empty and no drag is in
\* progress.
C27_IdleHasNoShape ==
    drawingMode = "none" =>
        (currentBox = Null /\ currentPolygon = <<>> /\ ~isDrawing)

\* C28 as stated, for a tool chosen in idle: right after the Box or the
\* Polygon button is clicked the box in progress is null and the vertex list
\* is empty (the reason why a polygon finished later would hold only the
\* vertices clicked after the tool was chosen).
C28_ToolStartsEmpty ==
    [][(lastOp'.op = "setDrawingMode" /\ drawingMode = "none") =>
          (currentBox' = Null /\ currentPolygon' = <<>>)
      ]_vars

\* C29: clear-all with the confirmation accepted makes the live set empty
\* with exactly one push, after which one undo() gives back the set of
\* before, and clears the selection; with the confirmation declined the live
\* set, the log, the cursor and the selection stay as they are; in both
\* cases nothing else of the editor changes.  (Onto a full log the one push
\* evicts the oldest entry, so the log does not grow.)
C29_ClearAll ==
    [][lastOp'.op = "clearAllAnnotations" =>
          /\ lastOp'.branch = "cleared" =>
                /\ annotations' = <<>>
                /\ OnePush \/ (Len(history) = HistoryCap /\ ~canRedo)
                /\ history'[Len(history')].annotations = <<>>
                /\ currentIndex' = Len(history') - 1
                /\ UndoResult(undoRedoState', annotations').annotations = annotations
                /\ selectedAnnotation' = Null
          /\ lastOp'.branch = "declined" =>
                UNCHANGED <<annotations, undoRedoState, selectedAnnotation>>
          /\ UNCHANGED <<drawingMode, isDrawing, currentBox, currentPolygon,
                         showLabelInput, labelText, saving, saveCalls, alerts>>
      ]_vars

\* clear-all has just emptied a live set of two boxes, nothing is selected,
\* and the entry before the cursor holds the two boxes
C29_Witness ==
    /\ lastOp.op = "clearAllAnnotations" /\ lastOp.branch = "cleared"
    /\ annotations = <<>>
    /\ selectedAnnotation = Null
    /\ currentIndex = lastOp.idx + 1
    /\ currentIndex >= 1
    /\ Len(history[currentIndex].annotations) = 2
    /\ UndoResult(undoRedoState, annotations).annotations = history[currentIndex].annotations

\* n calls of undo(), one after the other, on the pair r of a log and a live
\* set: the first half of the calls, then the rest. When the first half
\* leaves r as it was, so does every further run of that many calls.
RECURSIVE UndoTimes(_, _)
UndoTimes(r, n) ==
    IF n = 0 THEN r
    ELSE IF n = 1 THEN UndoResult(r.state, r.annotations)
    ELSE LET half == UndoTimes(r, n \div 2)
         IN  IF half = r
             THEN UndoTimes(r, n % 2)
             ELSE UndoTimes(half, n - (n \div 2))

\* n calls of redo(), in the same way
RECURSIVE RedoTimes(_, _)
RedoTimes(r, n) ==
    IF n = 0 THEN r
    ELSE IF n = 1 THEN RedoResult(r.state, r.annotations)
    ELSE LET half == RedoTimes(r, n \div 2)
         IN  IF half = r
             THEN RedoTimes(r, n % 2)
             ELSE RedoTimes(half, n - (n \div 2))

\* C30: when the load has seeded the log (entry 0 is the loaded set, the
\* stored box), k edits lie behind it, k <= 49, and the cursor is on the
\* last of them, k calls of undo() make the loaded set the live set, with
\* the cursor at 0, and k calls of redo() after them give back the live set
\* and the cursor of before; one call fewer does not reach the loaded set
\* when the entry after it differs.
C30_UndoAllRedoAll ==
    (/\ loadState = "done"
     /\ Len(history) >= 1
     /\ history[1].annotations = <<StoredBox>>
     /\ ~canRedo
     /\ currentIndex <= 49) =>
        LET k == currentIndex
            here == [state |-> undoRedoState, annotations |-> annotations]
            u == UndoTimes(here, k)
            r == RedoTimes(u, k)
        IN  /\ u.annotations = <<StoredBox>>
            /\ u.state.currentIndex = 0
            /\ r.annotations = annotations
            /\ r.state = undoRedoState
            /\ (k >= 1 /\ history[2].annotations # <<StoredBox>>) =>
                  UndoTimes(here, k - 1).annotations # <<StoredBox>>

\* the log holds the loaded set and 49 edits after it, and the last of 49
\* redos has just brought the cursor back to the end
C30_Witness ==
    /\ loadState = "done"
    /\ Len(history) = 50
    /\ history[1].annotations = <<StoredBox>>
    /\ lastOp.op = "redo" /\ lastOp.idx = 48
    /\ currentIndex = 49
    /\ annotations = <<>>

\* a polygon whose vertex data is not valid: points is missing or empty, or
\* one of its vertices is not an array, has fewer than two elements or has
\* a first or second element that is not a number
InvalidVertexData(ann) ==
    /\ "type" \in DOMAIN ann /\ ann.type = "polygon"
    /\ \/ "points" \notin DOMAIN ann
       \/ ann.points = <<>>
       \/ \E j \in 1..Len(ann.points) :
             LET point == ann.points[j]
             IN  \/ point.t # "array"
                 \/ Len(point.array) < 2
                 \/ \E c \in 1..2 : point.array[c].t # "number"

\* a polygon without the field points
PolygonWithoutPoints == [type |-> "polygon", id |-> "m", label |-> <<>>]

\* the annotation of the highest index among those of anns that the point
\* hits and whose vertex data is valid, or Null
TopmostSoundHit(anns, p) ==
    LET hit == {i \in 1..Len(anns) :
                   ~InvalidVertexData(anns[i]) /\ Hits(anns[i], p[1], p[2])}
    IN  IF hit = {} THEN Null
        ELSE anns[CHOOSE i \in hit : \A k \in hit : k <= i]

\* C31: hit-testing never returns a polygon whose vertex data is not valid
\* (points missing or empty, a vertex that is not a pair, a coordinate that
\* is not a number): it returns the topmost annotation with valid data that
\* contains the point, so an annotation below such a polygon is still
\* found, and that is what a press in idle selects.
C31_InvalidPolygonSkipped ==
    [][/\ \A p \in VertexPoints :
             LET found == findAnnotationAt(p[1], p[2])
             IN  /\ found # Null => ~InvalidVertexData(found)
                 /\ found = TopmostSoundHit(annotations, p)
                 /\ ~Hits(PolygonWithoutPoints, p[1], p[2])
       /\ FindFrom(<<BoxA, PolygonWithoutPoints>>, 2, 5, 5) = BoxA
       /\ (lastOp'.op \in {"handleMouseDown", "handleTouchStart"}
           /\ lastOp'.branch = "select") =>
             selectedAnnotation' = TopmostSoundHit(annotations, lastOp'.at)
      ]_vars

\* box A lies under a polygon with a coordinate that is not a number and
\* under one with a vertex that is not an array, and a press at (5,5) has
\* just selected box A
C31_Witness ==
    /\ lastOp.op = "handleMouseDown" /\ lastOp.branch = "select"
    /\ lastOp.at = <<5, 5>>
    /\ Len(annotations) = 3
    /\ annotations[1] = BoxA
    /\ annotations[2].id = "s" /\ annotations[3].id = "n"
    /\ InvalidVertexData(annotations[2]) /\ InvalidVertexData(annotations[3])
    /\ selectedAnnotation = BoxA

\* the vertices of a stored polygon as pairs of numbers
PairsOf(ann) == [j \in 1..Len(ann.points) |-> Pair(ann.points[j])]

\* p lies strictly on the side `sign` of every edge of the polygon
InnerSide(points, sign, p) ==
    LET n == Len(points)
    IN  \A j \in 1..n : sign * Cross(points[j], points[After(j, n)], p) > 0

\* the way the turns of a convex polygon go
Orientation(points) == IF TurnsAll(points, 1) THEN 1 ELSE -1

\* p lies strictly on the inner side of every edge of the convex polygon
StrictlyInside(points, p) == InnerSide(points, Orientation(points), p)

\* p lies outside the bounding box of the vertices
OutsideBoundingBox(points, p) ==
    \/ \A j \in 1..Len(points) : p[1] < points[j][1]
    \/ \A j \in 1..Len(points) : p[1] > points[j][1]
    \/ \A j \in 1..Len(points) : p[2] < points[j][2]
    \/ \A j \in 1..Len(points) : p[2] > points[j][2]

\* C32: over integer vertices and points, hit-testing matches a stored
\* polygon at every point strictly inside it when the polygon is convex,
\* and at no point outside the bounding box of its vertices, whatever the
\* first vertex and the orientation of the list (tested on the live set the
\* load has just stored, for every point); a press in idle at a point
\* strictly inside the one convex polygon of the live set selects it, and a
\* press outside the bounding box selects nothing.
C32_RayCasting ==
    /\ lastOp.op = "loadAnnotations" =>
          \A i \in 1..Len(annotations) :
              LET ann == annotations[i]
                  points == PairsOf(ann)
                  convex == IsConvex(points)
                  sign == Orientation(points)
              IN  \A p \in RayPoints :
                      /\ (convex /\ InnerSide(points, sign, p)) =>
                             Hits(ann, p[1], p[2])
                      /\ OutsideBoundingBox(points, p) =>
                             ~Hits(ann, p[1], p[2])
    /\ (lastOp.op = "handleMouseDown" /\ lastOp.branch = "select"
        /\ Len(annotations) = 1) =>
          LET points == PairsOf(annotations[1])
          IN  /\ (IsConvex(points) /\ StrictlyInside(points, lastOp.at)) =>
                     selectedAnnotation = annotations[1]
              /\ OutsideBoundingBox(points, lastOp.at) =>
                     selectedAnnotation = Null

\* a press at (1,2) has just selected the square (0,0), (3,0), (3,3), (0,3),
\* which it lies strictly inside
C32_Witness ==
    /\ lastOp.op = "handleMouseDown" /\ lastOp.branch = "select"
    /\ lastOp.at = <<1, 2>>
    /\ annotations =
           <<StoredPolygon(<<<<0, 0>>, <<3, 0>>, <<3, 3>>, <<0, 3>>>>)>>
    /\ StrictlyInside(PairsOf(annotations[1]), lastOp.at)
    /\ selectedAnnotation = annotations[1]

\* C33: whenever the log is not empty, the live set is the snapshot at the
\* cursor, after any interleaving of the load, commits, deletes, label
\* changes, clear-all, undo and redo.
C33_LiveSetAtCursor ==
    Len(history) >= 1 => annotations = history[currentIndex + 1].annotations

\* an undo has just stepped back from a longer live set: the log holds the
\* loaded set, the set with a drawn box and the set after that, and the
\* live set is the one with the drawn box
C33_Witness ==
    /\ lastOp.op = "undo"
    /\ loadState = "done"
    /\ Len(history) = 3 /\ currentIndex = 1
    /\ Len(annotations) = 2
    /\ annotations = history[2].annotations
    /\ annotations # history[3].annotations

\* C34 as stated: whenever an annotation is selected, an annotation with
\* the same id is in the live set.
C34_SelectionInLiveSet ==
    selectedAnnotation # Null =>
        \E i \in 1..Len(annotations) :
            IdOf(annotations[i]) = IdOf(selectedAnnotation)

\* C35 as stated: whenever the label prompt is open, an annotation is
\* selected.
C35_PromptHasSelection == showLabelInput => selectedAnnotation # Null

\* C36 as stated: a step that is not a delete, a clear-all, an undo or a
\* redo takes no annotation out of the live set: every annotation of the
\* set before the step is in the set after it (with the same id and type);
\* in particular the completion of the load removes nothing the user has
\* committed.
C36_CommittedStays ==
    [][lastOp'.op \notin {"deleteSelectedAnnotation", "clearAllAnnotations",
                          "undo", "redo"} =>
          \A i \in 1..Len(annotations) :
              \E k \in 1..Len(annotations') :
                  /\ IdOf(annotations'[k]) = IdOf(annotations[i])
                  /\ annotations'[k].type = annotations[i].type
      ]_vars

\* C37: at most one save request is in flight, and the saving flag is set
\* exactly while one is; a save starts only when none is in flight, also
\* while export requests are.
C37_OneSaveInFlight ==
    [][/\ Len(saveCalls) <= 1
       /\ saving <=> (Len(saveCalls) = 1)
       /\ (lastOp'.op = "saveAnnotations" /\ lastOp'.branch = "sent") =>
             (saveCalls = <<>> /\ ~saving /\ Len(saveCalls') = 1
              /\ downloadCalls' = downloadCalls)
      ]_vars

\* a save has completed, a second one has just been sent, and an export
\* request is in flight as well
C37_Witness ==
    /\ lastOp.op = "saveAnnotations" /\ lastOp.branch = "sent"
    /\ "Annotations saved successfully!" \in {alerts[i] : i \in 1..Len(alerts)}
    /\ Len(saveCalls) = 1 /\ saving
    /\ Len(downloadCalls) >= 1

\* C38 as stated: a Delete, a label confirmation or a clear-all that leaves
\* the live set as it was leaves the log and the cursor as they were, and
\* no two consecutive entries of the log hold equal annotation sets.
C38_PushOnlyOnChange ==
    [][/\ (/\ lastOp'.op \in {"deleteSelectedAnnotation", "saveLabel",
                               "clearAllAnnotations"}
           /\ annotations' = annotations) =>
             undoRedoState' = undoRedoState
       /\ \A i \in 1..(Len(history') - 1) :
             history'[i].annotations # history'[i + 1].annotations
      ]_vars

\* what the end of a touch at p does, in the words of C39
TouchEndEffect(p) ==
    IF drawingMode = "polygon"
    THEN /\ currentPolygon' = IF ~touchMoved /\ now - touchStartTime < 300
                               THEN Append(currentPolygon, p)
                               ELSE currentPolygon
         /\ UNCHANGED <<annotations, undoRedoState, drawingMode, currentBox,
                        isDrawing, selectedAnnotation, showLabelInput>>
    ELSE IF drawingMode = "box" /\ isDrawing /\ currentBox # Null
    THEN /\ drawingMode' = "none"
         /\ currentBox' = Null
         /\ isDrawing' = FALSE
         /\ currentPolygon' = currentPolygon
         /\ IF Abs(currentBox.w) > 10 /\ Abs(currentBox.h) > 10
            THEN /\ Len(annotations') = Len(annotations) + 1
                 /\ SubSeq(annotations', 1, Len(annotations)) = annotations
                 /\ LET new == annotations'[Len(annotations')]
                    IN  /\ new.type = "box"
                        /\ new.x = Min(currentBox.x, currentBox.x + currentBox.w)
                        /\ new.y = Min(currentBox.y, currentBox.y + currentBox.h)
                        /\ new.w = Abs(currentBox.w) /\ new.h = Abs(currentBox.h)
                        /\ selectedAnnotation' = new
                 /\ showLabelInput'
                 /\ OnePush
            ELSE UNCHANGED <<annotations, undoRedoState, selectedAnnotation,
                             showLabelInput>>
    ELSE UNCHANGED <<annotations, undoRedoState, drawingMode, currentBox,
                     isDrawing, currentPolygon, selectedAnnotation,
                     showLabelInput>>

\* C39: a touch-cancel does what a touch-end does: during a box drag it
\* commits the box when both extents exceed 10 pixels, otherwise discards
\* it, and returns the mode to none; in polygon mode it appends its point
\* as a vertex when the touch was a tap (not moved, shorter than 300 ms)
\* and does nothing otherwise.
C39_TouchCancelAsTouchEnd ==
    [][lastOp'.op \in {"handleTouchCancel", "handleTouchEnd"} =>
          \E p \in CancelPoints :
              /\ lastOp'.branch = "tap" => lastOp'.at = p
              /\ TouchEndEffect(p)
      ]_vars

\* a touch dragged over 60 pixels both ways has just been cancelled, and
\* the box is committed, selected and waiting for its label
C39_Witness ==
    /\ lastOp.op = "handleTouchCancel" /\ lastOp.branch = "commit"
    /\ drawingMode = "none" /\ currentBox = Null /\ ~isDrawing
    /\ Len(annotations) = 1
    /\ annotations[1].w = 60 /\ annotations[1].h = 60
    /\ selectedAnnotation = annotations[1]
    /\ showLabelInput

====
